---- MODULE Spec2Model ----
(***************************************************************************)
(* Backpropagation visualizer: the scalar computation graph                *)
(* (ComputationNode variants, ComputationGraph), the step-by-step           *)
(* ExecutionEngine that wraps it, and the dense Layer.                      *)
(*                                                                         *)
(* Numbers are integers: node values, gradients and matrix entries are     *)
(* drawn from small integer sets, on which the arithmetic of the source    *)
(* (+, -, *, max, comparison) is exact.  SigmoidNode is real-valued and is  *)
(* not part of the model.  A node's id is its index in `nodes`, and its    *)
(* name is its id.                                                         *)
(***************************************************************************)
EXTENDS Integers, Sequences, FiniteSets, TLC

VARIABLES
    nodes,             \* ComputationGraph.nodes: id -> ComputationNode
    outputNode,        \* ComputationGraph.outputNode (0 = null)
    executionOrder,    \* ComputationGraph.executionOrder
    forwardSteps,      \* ExecutionEngine.forwardSteps
    backwardSteps,     \* ExecutionEngine.backwardSteps
    currentStepIndex,  \* ExecutionEngine.currentStepIndex
    mode,              \* ExecutionEngine.mode
    pendingGradients,  \* ExecutionEngine.pendingGradients (a partial map)
    op,                \* the operation performed last: [name, arg]
    ret,               \* what stepForward / stepBackward returned last
    rewound,           \* history: a stepBackward or jumpToStep since the last reset
    layer,             \* the Layer object (Layer.ts)
    matrix,            \* the operands and the outcome of the last Matrix call
    network,           \* the NeuralNetwork object
    player,            \* the playAll loop of the engine (auto-play)
    test               \* the gradient check made last (ActivationTests, LossTests)

gvars == <<nodes, outputNode, executionOrder, forwardSteps,
           backwardSteps, currentStepIndex, mode, pendingGradients,
           op, ret, rewound>>
objects == <<layer, matrix, network, player, test>>
vars == <<gvars, objects>>

\* ------------------------------------------------------------------------
\* Bounds
\* ------------------------------------------------------------------------
MaxNodes == 3
MaxGrad == 4
MaxWeight == 2
MaxEpochs == 2
MaxHistory == 2
MaxTestRows == 3
MaxSets == 1
Leaves == {<<"input", -1>>, <<"input", 2>>, <<"parameter", 2>>}

LeafTypes == {"input", "parameter"}
UnaryTypes == {"relu", "square"}
BinaryTypes == {"multiply", "add", "subtract", "max"}

Abs(x) == IF x < 0 THEN -x ELSE x
Max2(a, b) == IF a >= b THEN a ELSE b

RECURSIVE SeqSum(_)
SeqSum(s) == IF s = <<>> THEN 0 ELSE Head(s) + SeqSum(Tail(s))

Reverse(s) == [i \in 1..Len(s) |-> s[Len(s) + 1 - i]]

Range(s) == {s[i] : i \in 1..Len(s)}

\* ------------------------------------------------------------------------
\* ComputationNode
\* ------------------------------------------------------------------------
NewNode(type, inputs, val) ==
    [type |-> type, inputs |-> inputs, value |-> val, gradient |-> 0,
     isActive |-> FALSE, maxIndex |-> 0]

\* forward() of every variant: the value the node holds afterwards
ForwardValue(ns, id) ==
    LET n == ns[id]
        a == ns[n.inputs[1]].value
        b == ns[n.inputs[2]].value
    IN CASE n.type \in LeafTypes -> n.value
         [] n.type = "multiply" -> a * b
         [] n.type = "add" -> a + b
         [] n.type = "subtract" -> a - b
         [] n.type = "square" -> a * a
         [] n.type = "relu" -> Max2(0, a)
         [] n.type = "max" -> IF a > b THEN a ELSE b

\* MaxNode.forward: which input is remembered as the winner
MaxWinner(a, b) == IF a > b THEN 0 ELSE 1

NodeForward(ns, id) ==
    LET n == ns[id]
    IN IF n.type = "max"
       THEN [ns EXCEPT ![id].value = ForwardValue(ns, id),
                       ![id].maxIndex = MaxWinner(ns[n.inputs[1]].value,
                                                  ns[n.inputs[2]].value)]
       ELSE [ns EXCEPT ![id].value = ForwardValue(ns, id)]

\* the multiply rule with the two factors exchanged
InputGradsSwapped(ns, id, up) ==
    LET n == ns[id]
        a == ns[n.inputs[1]].value
        b == ns[n.inputs[2]].value
    IN CASE n.type \in LeafTypes -> <<>>
         [] n.type = "multiply" -> <<a * up, b * up>>
         [] n.type = "add" -> <<up, up>>
         [] n.type = "subtract" -> <<up, -up>>
         [] n.type = "square" -> <<(2 * a) * up>>
         [] n.type = "relu" -> <<(IF a > 0 THEN 1 ELSE 0) * up>>
         [] n.type = "max" -> IF n.maxIndex = 0 THEN <<up, 0>> ELSE <<0, up>>

\* The gradient each variant's backward hands to its inputs, by position
InputGrads(ns, id, up) ==
    LET n == ns[id]
        a == ns[n.inputs[1]].value
        b == ns[n.inputs[2]].value
    IN CASE n.type \in LeafTypes -> <<>>
         [] n.type = "multiply" -> <<b * up, a * up>>
         [] n.type = "add" -> <<up, up>>
         [] n.type = "subtract" -> <<up, -up>>
         [] n.type = "square" -> <<(2 * a) * up>>
         [] n.type = "relu" -> <<(IF a > 0 THEN 1 ELSE 0) * up>>
         [] n.type = "max" -> IF n.maxIndex = 0 THEN <<up, 0>> ELSE <<0, up>>

\* backward(upstreamGradient): assigns this.gradient, then calls backward on
\* each input in turn
RECURSIVE NodeBackward(_, _, _)
RECURSIVE BackwardInputs(_, _, _, _)
NodeBackward(ns, id, up) ==
    LET ns1 == [ns EXCEPT ![id].gradient = up]
    IN BackwardInputs(ns1, ns1[id].inputs, InputGrads(ns1, id, up), 1)

BackwardInputs(ns, inputs, grads, i) ==
    IF i > Len(inputs) THEN ns
    ELSE BackwardInputs(NodeBackward(ns, inputs[i], grads[i]), inputs, grads, i + 1)

\* getForwardEquation / getBackwardEquation / getExplanation: the rendered
\* string is represented by the tuple of the names and numbers it prints
ForwardEquation(ns, id) ==
    LET n == ns[id]
    IN <<"fwd", n.type, id, n.inputs,
         [i \in 1..Len(n.inputs) |-> ns[n.inputs[i]].value], n.value>>

BackwardEquation(ns, id) ==
    LET n == ns[id]
        a == ns[n.inputs[1]].value
        b == ns[n.inputs[2]].value
        g == n.gradient
    IN CASE n.type \in LeafTypes -> <<"bwd", n.type, id, g>>
         [] n.type = "multiply" -> <<"bwd", n.type, n.inputs, id, b, g, b * g>>
         [] n.type = "add" -> <<"bwd", n.type, n.inputs[1], id, g>>
         [] n.type = "subtract" -> <<"bwd", n.type, n.inputs, g>>
         [] n.type = "square" -> <<"bwd", n.type, n.inputs, id, 2 * a, g, (2 * a) * g>>
         [] n.type = "relu" ->
              LET l == IF a > 0 THEN 1 ELSE 0
              IN <<"bwd", n.type, n.inputs, id, l, g, l * g>>
         [] n.type = "max" -> <<"bwd", n.type, n.inputs[n.maxIndex + 1], g>>

Explanation(ns, id) ==
    LET n == ns[id]
    IN IF n.type = "max" THEN <<n.type, n.inputs[n.maxIndex + 1]>> ELSE <<n.type>>

\* ------------------------------------------------------------------------
\* ComputationGraph
\* ------------------------------------------------------------------------
\* computeExecutionOrder: post-order depth-first visit with a visited set
RECURSIVE visit(_, _, _)
RECURSIVE visitInputs(_, _, _, _)
visit(ns, id, st) ==
    IF id \in st.visited THEN st
    ELSE LET st1 == [st EXCEPT !.visited = @ \cup {id}]
             st2 == visitInputs(ns, ns[id].inputs, 1, st1)
         IN [st2 EXCEPT !.order = Append(@, id)]

visitInputs(ns, inputs, i, st) ==
    IF i > Len(inputs) THEN st
    ELSE visitInputs(ns, inputs, i + 1, visit(ns, inputs[i], st))

\* the visit without its visited set
RECURSIVE visitUnmarked(_, _)
visitUnmarked(ns, id) ==
    LET sub == [i \in 1..Len(ns[id].inputs) |-> visitUnmarked(ns, ns[id].inputs[i])]
    IN (IF Len(sub) = 0 THEN <<>>
        ELSE IF Len(sub) = 1 THEN sub[1]
        ELSE sub[1] \o sub[2]) \o <<id>>

computeExecutionOrderUnmarked(ns, out) ==
    IF out # 0 THEN visitUnmarked(ns, out) ELSE <<>>

\* an order over every node of the graph, whatever the output
RECURSIVE visitAll(_, _, _)
visitAll(ns, i, st) ==
    IF i > Len(ns) THEN st ELSE visitAll(ns, i + 1, visit(ns, i, st))

computeExecutionOrderAllNodes(ns, out) ==
    visitAll(ns, 1, [visited |-> {}, order |-> <<>>]).order

computeExecutionOrder(ns, out) ==
    IF out # 0 THEN visit(ns, out, [visited |-> {}, order |-> <<>>]).order
    ELSE <<>>

\* ComputationGraph.forward: every node of executionOrder, in order
RECURSIVE ForwardFrom(_, _, _)
ForwardFrom(ns, order, i) ==
    IF i > Len(order) THEN ns
    ELSE ForwardFrom(NodeForward(ns, order[i]), order, i + 1)

graphForward(ns, order) == ForwardFrom(ns, order, 1)

graphForwardResult(ns, order, out) ==
    IF out # 0 THEN graphForward(ns, order)[out].value ELSE 0

\* ComputationGraph.backward
graphBackward(ns, out) == IF out = 0 THEN ns ELSE NodeBackward(ns, out, 1)

\* a reset that also clears the values the operation nodes computed
graphResetValues(ns) ==
    [id \in DOMAIN ns |->
        [ns[id] EXCEPT !.gradient = 0, !.isActive = FALSE,
                       !.value = IF ns[id].type \in LeafTypes THEN @ ELSE 0]]

\* ComputationGraph.reset
graphReset(ns) ==
    [id \in DOMAIN ns |-> [ns[id] EXCEPT !.gradient = 0, !.isActive = FALSE]]

\* ------------------------------------------------------------------------
\* ExecutionEngine
\* ------------------------------------------------------------------------
NoEquation == <<>>
NoValues == <<>>
EmptyMap == <<>>

\* Map.get(k) || 0
Get(p, k) == IF k \in DOMAIN p THEN p[k] ELSE 0

\* Map.set(k, v)
Set(p, k, v) == [j \in DOMAIN p \cup {k} |-> IF j = k THEN v ELSE p[j]]

allSteps(e) == e.forwardSteps \o e.backwardSteps

totalSteps(e) == Len(e.forwardSteps) + Len(e.backwardSteps)

ForwardStepInfo(ns, id) ==
    [mode |-> "forward", nodeId |-> id, nodeName |-> id,
     equation |-> NoEquation, explanation |-> <<"fwd", Explanation(ns, id)>>,
     values |-> NoValues,
     activeNodeIds |-> Append(ns[id].inputs, id),
     activeEdgeIds |-> [i \in 1..Len(ns[id].inputs) |-> <<ns[id].inputs[i], id>>]]

BackwardStepInfo(ns, id) ==
    [mode |-> "backward", nodeId |-> id, nodeName |-> id,
     equation |-> NoEquation, explanation |-> <<"bwd", Explanation(ns, id)>>,
     values |-> NoValues,
     activeNodeIds |-> <<id>> \o ns[id].inputs,
     activeEdgeIds |-> [i \in 1..Len(ns[id].inputs) |-> <<id, ns[id].inputs[i]>>]]

\* generateSteps: one forward skeleton per node of executionOrder, then one
\* backward skeleton per node of the reversed order
generateForwardSteps(ns, order) ==
    [i \in 1..Len(order) |-> ForwardStepInfo(ns, order[i])]

\* the backward steps generated in forward order
BackwardOrderNotReversed(order) == order

BackwardOrder(order) == Reverse(order)

generateBackwardSteps(ns, order) ==
    [i \in 1..Len(order) |-> BackwardStepInfo(ns, BackwardOrder(order)[i])]

generateSteps(e) ==
    [e EXCEPT !.forwardSteps = generateForwardSteps(e.nodes, e.executionOrder),
              !.backwardSteps = generateBackwardSteps(e.nodes, e.executionOrder)]

\* reset() without the call of generateSteps()
resetKeepSteps(e) ==
    [e EXCEPT !.currentStepIndex = -1,
              !.mode = "idle",
              !.pendingGradients = EmptyMap,
              !.nodes = graphReset(e.nodes)]

\* reset()
reset(e) ==
    generateSteps([e EXCEPT !.currentStepIndex = -1,
                            !.mode = "idle",
                            !.pendingGradients = EmptyMap,
                            !.nodes = graphReset(e.nodes)])

\* executeForward() / executeBackward()
executeForward(e) ==
    generateSteps([e EXCEPT !.nodes = graphForward(e.nodes, e.executionOrder)])

executeBackward(e) ==
    generateSteps([e EXCEPT !.nodes = graphBackward(e.nodes, e.outputNode)])

\* node.backwardLocal(upstream): the contribution to each input node, keyed
\* by the input's id; the node records the upstream gradient it was given
backwardLocal(ns, id, up) ==
    LET inputs == ns[id].inputs
        g == InputGrads(ns, id, up)
    IN [j \in Range(inputs) |->
          SeqSum([i \in 1..Len(inputs) |-> IF inputs[i] = j THEN g[i] ELSE 0])]

backwardLocalNode(ns, id, up) == [ns EXCEPT ![id].gradient = up]

\* the loop with `set(inputId, grad)` in place of `set(inputId, currentGrad + grad)`
AccumulateOverwrite(p, ig) ==
    [j \in DOMAIN p \cup DOMAIN ig |-> IF j \in DOMAIN ig THEN ig[j] ELSE p[j]]

\* stepForward, the loop that adds each input gradient to the pending map
Accumulate(p, ig) ==
    [j \in DOMAIN p \cup DOMAIN ig |->
        IF j \in DOMAIN ig THEN Get(p, j) + ig[j] ELSE p[j]]

\* the first backward step without the seed of 1
SeedGradientsUnseeded(p, backwardIndex, id) ==
    IF backwardIndex = 0 THEN EmptyMap ELSE p

\* stepForward, the first backward step: the map is cleared and the node seeded
SeedGradients(p, backwardIndex, id) ==
    IF backwardIndex = 0 THEN Set(EmptyMap, id, 1) ELSE p

ForwardValues(ns, id) ==
    <<"output", ns[id].value,
      [j \in Range(ns[id].inputs) |-> ns[j].value]>>

BackwardValues(ns, p, id) ==
    <<"gradient", ns[id].gradient, ns[id].value,
      [j \in Range(ns[id].inputs) |-> Get(p, j)]>>

\* stepForward(), forward branch
stepForwardNode(e, c) ==
    LET id == e.forwardSteps[c + 1].nodeId
        ns1 == NodeForward(e.nodes, id)
        ns2 == [ns1 EXCEPT ![id].isActive = TRUE]
    IN [e EXCEPT !.nodes = ns2,
                 !.forwardSteps[c + 1].equation = ForwardEquation(ns2, id),
                 !.forwardSteps[c + 1].values = ForwardValues(ns2, id)]

\* stepForward(), backward branch
stepBackwardNode(e, c) ==
    LET backwardIndex == c - Len(e.forwardSteps)
        id == e.backwardSteps[backwardIndex + 1].nodeId
        p0 == SeedGradients(e.pendingGradients, backwardIndex, id)
        upstreamGradient == Get(p0, id)
        inputGradients == backwardLocal(e.nodes, id, upstreamGradient)
        ns1 == backwardLocalNode(e.nodes, id, upstreamGradient)
        p1 == Accumulate(p0, inputGradients)
        ns2 == [ns1 EXCEPT ![id].isActive = TRUE]
    IN [e EXCEPT !.nodes = ns2,
                 !.pendingGradients = p1,
                 !.backwardSteps[backwardIndex + 1].equation = BackwardEquation(ns2, id),
                 !.backwardSteps[backwardIndex + 1].values = BackwardValues(ns2, p1, id)]

\* the end test off by one
AtLastStepEarly(e) == e.currentStepIndex >= totalSteps(e) - 2

AtLastStep(e) == e.currentStepIndex >= totalSteps(e) - 1

stepForward(e) ==
    IF AtLastStep(e) THEN [e EXCEPT !.ret = FALSE]
    ELSE LET c == e.currentStepIndex + 1
             e1 == [e EXCEPT !.currentStepIndex = c,
                             !.mode = allSteps(e)[c + 1].mode,
                             !.ret = TRUE]
         IN IF c < Len(e.forwardSteps) THEN stepForwardNode(e1, c)
            ELSE stepBackwardNode(e1, c)

\* stepBackward()
\* stepBackward without the deactivation loop
DeactivateNothing(ns, ids) == ns

Deactivate(ns, ids) ==
    [id \in DOMAIN ns |->
        IF id \in Range(ids) THEN [ns[id] EXCEPT !.isActive = FALSE] ELSE ns[id]]

AtFirstPosition(e) == e.currentStepIndex < 0

\* stepBackward that leaves the mode as it is
stepBackwardKeepMode(e) ==
    IF AtFirstPosition(e) THEN [e EXCEPT !.ret = FALSE]
    ELSE LET cs == allSteps(e)[e.currentStepIndex + 1]
             ns1 == Deactivate(e.nodes, cs.activeNodeIds)
             c == e.currentStepIndex - 1
         IN IF c < 0
            THEN [e EXCEPT !.nodes = graphReset(ns1), !.currentStepIndex = c,
                           !.ret = TRUE]
            ELSE [e EXCEPT !.nodes = ns1, !.currentStepIndex = c, !.ret = TRUE]

stepBackward(e) ==
    IF AtFirstPosition(e) THEN [e EXCEPT !.ret = FALSE]
    ELSE LET cs == allSteps(e)[e.currentStepIndex + 1]
             ns1 == Deactivate(e.nodes, cs.activeNodeIds)
             c == e.currentStepIndex - 1
         IN IF c < 0
            THEN [e EXCEPT !.nodes = graphReset(ns1), !.currentStepIndex = c,
                           !.mode = "idle", !.ret = TRUE]
            ELSE [e EXCEPT !.nodes = ns1, !.currentStepIndex = c,
                           !.mode = allSteps(e)[c + 1].mode, !.ret = TRUE]

\* jumpToStep(stepIndex)
RECURSIVE Replay(_, _)
Replay(e, k) == IF k = 0 THEN e ELSE Replay(stepForward(e), k - 1)

\* the range check that also lets -1 through
ValidStepOrStart(e, stepIndex) == ~(stepIndex < -1 \/ stepIndex >= totalSteps(e))

ValidStep(e, stepIndex) == ~(stepIndex < 0 \/ stepIndex >= totalSteps(e))

JumpStart(e) ==
    [e EXCEPT !.currentStepIndex = -1, !.nodes = graphReset(e.nodes)]

jumpToStep(e, stepIndex) ==
    IF ~ValidStep(e, stepIndex) THEN e
    ELSE Replay(JumpStart(e), stepIndex + 1)

\* getState()
getState(e) ==
    [mode |-> e.mode,
     currentStep |-> e.currentStepIndex,
     totalSteps |-> totalSteps(e),
     activeNodes |-> IF e.currentStepIndex >= 0
                     THEN Range(allSteps(e)[e.currentStepIndex + 1].activeNodeIds)
                     ELSE {},
     steps |-> allSteps(e),
     isComplete |-> (e.currentStepIndex = totalSteps(e) - 1)]

\* ------------------------------------------------------------------------
\* The graph and its engine as a state machine
\* ------------------------------------------------------------------------
\* The engine together with the graph it wraps, as one record
Cur ==
    [nodes |-> nodes, outputNode |-> outputNode, executionOrder |-> executionOrder,
     forwardSteps |-> forwardSteps, backwardSteps |-> backwardSteps,
     currentStepIndex |-> currentStepIndex, mode |-> mode,
     pendingGradients |-> pendingGradients, ret |-> ret]

CurNext ==
    [nodes |-> nodes', outputNode |-> outputNode', executionOrder |-> executionOrder',
     forwardSteps |-> forwardSteps', backwardSteps |-> backwardSteps',
     currentStepIndex |-> currentStepIndex', mode |-> mode',
     pendingGradients |-> pendingGradients', ret |-> ret']

Becomes(e) ==
    /\ nodes' = e.nodes
    /\ outputNode' = e.outputNode
    /\ executionOrder' = e.executionOrder
    /\ forwardSteps' = e.forwardSteps
    /\ backwardSteps' = e.backwardSteps
    /\ currentStepIndex' = e.currentStepIndex
    /\ mode' = e.mode
    /\ pendingGradients' = e.pendingGradients
    /\ ret' = e.ret

Did(name, arg) == op' = [name |-> name, arg |-> arg]

\* pending gradients grow without limit when backward steps are replayed;
\* the model follows them up to MaxGrad
WithinBounds(e) ==
    \A j \in DOMAIN e.pendingGradients : Abs(e.pendingGradients[j]) <= MaxGrad

NoLayer == [built |-> FALSE]

NoMatrix == [built |-> FALSE]

NoNetwork == [built |-> FALSE]

NoPlayer == [built |-> FALSE]

NoTest == [built |-> FALSE]

\* new ComputationGraph(), no engine
NoEngine ==
    /\ forwardSteps = <<>>
    /\ backwardSteps = <<>>
    /\ currentStepIndex = -1
    /\ mode = "idle"
    /\ pendingGradients = EmptyMap
    /\ ret = TRUE

GraphInit ==
    /\ nodes = <<>>
    /\ outputNode = 0
    /\ executionOrder = <<>>
    /\ NoEngine
    /\ op = [name |-> "new", arg |-> 0]
    /\ rewound = FALSE
    /\ layer = NoLayer
    /\ matrix = NoMatrix
    /\ network = NoNetwork
    /\ player = NoPlayer
    /\ test = NoTest

NodeIds == 1..Len(nodes)

engineVars == <<forwardSteps, backwardSteps, currentStepIndex, mode,
                pendingGradients, ret, rewound>>

\* new XNode(...) followed by graph.addNode(node)
AddNode ==
    /\ outputNode = 0
    /\ Len(nodes) < MaxNodes
    /\ \/ \E l \in Leaves :
             nodes' = Append(nodes, NewNode(l[1], <<>>, l[2]))
       \/ \E t \in UnaryTypes, i \in NodeIds :
             nodes' = Append(nodes, NewNode(t, <<i>>, 0))
       \/ \E t \in BinaryTypes, i \in NodeIds, j \in NodeIds :
             nodes' = Append(nodes, NewNode(t, <<i, j>>, 0))
    /\ Did("addNode", 0)
    /\ UNCHANGED <<outputNode, executionOrder, engineVars, objects>>

\* graph.setOutput(node)
SetOutput ==
    /\ outputNode = 0
    /\ \E o \in NodeIds :
          /\ outputNode' = o
          /\ executionOrder' = computeExecutionOrder(nodes, o)
          /\ Did("setOutput", o)
    /\ UNCHANGED <<nodes, engineVars, objects>>

\* graph.forward()
Forward ==
    /\ nodes' = graphForward(nodes, executionOrder)
    /\ Did("graph.forward", graphForwardResult(nodes, executionOrder, outputNode))
    /\ UNCHANGED <<outputNode, executionOrder, engineVars, objects>>

\* graph.backward(); op.arg records whether it directly follows forward()
Backward ==
    /\ nodes' = graphBackward(nodes, outputNode)
    /\ Did("graph.backward", IF op.name = "graph.forward" THEN 1 ELSE 0)
    /\ UNCHANGED <<outputNode, executionOrder, engineVars, objects>>

\* graph.reset()
GraphReset ==
    /\ nodes' = graphReset(nodes)
    /\ Did("graph.reset", 0)
    /\ UNCHANGED <<outputNode, executionOrder, engineVars, objects>>

GraphNext ==
    \/ AddNode
    \/ SetOutput
    \/ Forward
    \/ Backward
    \/ GraphReset

GraphSpec == GraphInit /\ [][GraphNext]_vars

\* --- the engine over a graph of the example library ---------------------
Leaf(t, v) == NewNode(t, <<>>, v)
Op1(t, i) == NewNode(t, <<i>>, 0)
Op2(t, i, j) == NewNode(t, <<i, j>>, 0)

\* createMultiplicationExample: z = x * y
MultiplicationExample ==
    [nodes |-> <<Leaf("input", 2), Leaf("input", 3), Op2("multiply", 1, 2)>>,
     out |-> 3]

\* createChainExample: z = (x * y) + c
ChainExample ==
    [nodes |-> <<Leaf("input", 2), Leaf("input", 3), Leaf("input", 1),
                 Op2("multiply", 1, 2), Op2("add", 4, 3)>>,
     out |-> 5]

\* createLossExample: L = (pred - target)^2, with integer inputs
LossExample ==
    [nodes |-> <<Leaf("input", 2), Leaf("input", 1),
                 Op2("subtract", 1, 2), Op1("square", 3)>>,
     out |-> 4]

\* the max gate of createQ5Example, with both operands equal
MaxTieExample ==
    [nodes |-> <<Leaf("input", 2), Leaf("parameter", 2), Op2("max", 1, 2)>>,
     out |-> 3]

\* one input used as both operands
SquareByMultiplyExample ==
    [nodes |-> <<Leaf("input", 2), Op2("multiply", 1, 1)>>, out |-> 2]

\* x feeds two consumers that are joined again: relu(x) + x^2 and x^2 - relu(x)
DiamondExample ==
    [nodes |-> <<Leaf("input", 1), Op1("square", 1), Op1("relu", 1),
                 Op2("add", 3, 2)>>,
     out |-> 4]

DiamondSwappedExample ==
    [nodes |-> <<Leaf("input", -1), Op1("square", 1), Op1("relu", 1),
                 Op2("subtract", 2, 3)>>,
     out |-> 4]

\* a node that the output does not reach, and a graph without an output
UnusedNodeExample ==
    [nodes |-> <<Leaf("parameter", 2), Leaf("input", -1), Op2("add", 1, 1)>>,
     out |-> 1]

NoOutputExample ==
    [nodes |-> <<Leaf("input", 2)>>, out |-> 0]

\* a product that receives an upstream gradient other than 1: c - x * y
ScaledProductExample ==
    [nodes |-> <<Leaf("input", 2), Leaf("input", 3), Leaf("parameter", 1),
                 Op2("multiply", 1, 2), Op2("subtract", 3, 4)>>,
     out |-> 5]

Examples ==
    {MultiplicationExample, ChainExample, LossExample, MaxTieExample,
     SquareByMultiplyExample, DiamondExample, DiamondSwappedExample,
     UnusedNodeExample, NoOutputExample}

\* new ExecutionEngine(example.graph): the constructor calls reset()
NewEngine(g) ==
    reset([nodes |-> g.nodes, outputNode |-> g.out,
           executionOrder |-> computeExecutionOrder(g.nodes, g.out),
           forwardSteps |-> <<>>, backwardSteps |-> <<>>,
           currentStepIndex |-> -1, mode |-> "idle",
           pendingGradients |-> EmptyMap, ret |-> TRUE])

Init ==
    /\ \E g \in Examples :
          LET e == NewEngine(g)
          IN /\ nodes = e.nodes
             /\ outputNode = e.outputNode
             /\ executionOrder = e.executionOrder
             /\ forwardSteps = e.forwardSteps
             /\ backwardSteps = e.backwardSteps
             /\ currentStepIndex = e.currentStepIndex
             /\ mode = e.mode
             /\ pendingGradients = e.pendingGradients
             /\ ret = e.ret
    /\ op = [name |-> "new", arg |-> 0]
    /\ rewound = FALSE
    /\ layer = NoLayer
    /\ matrix = NoMatrix
    /\ network = NoNetwork
    /\ player = NoPlayer
    /\ test = NoTest

Reset ==
    /\ Becomes(reset(Cur))
    /\ Did("reset", 0)
    /\ rewound' = FALSE
    /\ UNCHANGED objects

StepForward ==
    /\ WithinBounds(stepForward(Cur))
    /\ Becomes(stepForward(Cur))
    /\ Did("stepForward", 0)
    /\ UNCHANGED <<rewound, objects>>

StepBackward ==
    /\ Becomes(stepBackward(Cur))
    /\ Did("stepBackward", 0)
    /\ rewound' = TRUE
    /\ UNCHANGED objects

JumpToStep ==
    /\ \E n \in -1..totalSteps(Cur) :
          /\ WithinBounds(jumpToStep(Cur, n))
          /\ Becomes(jumpToStep(Cur, n))
          /\ Did("jumpToStep", n)
    /\ rewound' = TRUE
    /\ UNCHANGED objects

Next ==
    \/ Reset
    \/ StepForward
    \/ StepBackward
    \/ JumpToStep

Spec == Init /\ [][Next]_vars

\* ------------------------------------------------------------------------
\* Properties of the engine (Spec)
\* ------------------------------------------------------------------------
\* What a caller can read of the engine: getState() and the pending gradients
View(e) == [state |-> getState(e), pending |-> e.pendingGradients]

\* reset() followed by k calls of stepForward()
FromReset(e, k) == Replay(reset(e), k)

RECURSIVE SetSum(_, _)
SetSum(S, f) ==
    IF S = {} THEN 0
    ELSE LET x == CHOOSE y \in S : TRUE IN f[x] + SetSum(S \ {x}, f)

\* the nodes of the execution order that have v among their inputs
Consumers(e, v) ==
    {c \in Range(e.executionOrder) : v \in Range(e.nodes[c].inputs)}

\* what the backward step of consumer c computes for its input v
Contribution(e, c, v) ==
    backwardLocal(e.nodes, c, Get(e.pendingGradients, c))[v]

Shared(e) == {v \in Range(e.executionOrder) : Cardinality(Consumers(e, v)) >= 2}

AtEnd == totalSteps(Cur) > 0 /\ currentStepIndex = totalSteps(Cur) - 1

\* C1: after jumpToStep(n) with a valid n, what the engine shows (mode,
\* cursor, active nodes, every StepInfo, isComplete, pending gradients) is
\* what reset() followed by n+1 stepForward() calls shows.
C1_ReplayConsistency ==
    [][(op'.name = "jumpToStep" /\ ValidStep(Cur, op'.arg))
          => View(CurNext) = View(FromReset(Cur, op'.arg + 1))]_vars

\* C2: after reset() and stepping forward through all steps, the pending
\* gradient of a node with two or more consumers is the sum of what each
\* consumer's backward step computed for it.
C2_GradientAccumulation ==
    (AtEnd /\ ~rewound) =>
        \A v \in Shared(Cur) :
            Get(pendingGradients, v) =
                SetSum(Consumers(Cur, v),
                       [c \in Consumers(Cur, v) |-> Contribution(Cur, c, v)])

C2_Witness ==
    /\ AtEnd /\ ~rewound
    /\ \E v \in Shared(Cur) :
          /\ \A c \in Consumers(Cur, v) : Contribution(Cur, c, v) # 0
          /\ \E c \in Consumers(Cur, v) :
                Get(pendingGradients, v) # Contribution(Cur, c, v)

\* C5: the step list is the N forward steps of executionOrder followed by
\* the N backward steps of the reversed order, and in a run from reset the
\* executed steps are exactly those up to the cursor, so no backward step is
\* executed before every forward step is.
Executed(step) == step.equation # NoEquation

C5_StepListShape ==
    LET N == Len(executionOrder)
    IN /\ Len(forwardSteps) = N
       /\ Len(backwardSteps) = N
       /\ totalSteps(Cur) = 2 * N
       /\ \A i \in 1..N :
             /\ forwardSteps[i].mode = "forward"
             /\ forwardSteps[i].nodeId = executionOrder[i]
             /\ allSteps(Cur)[N + i].mode = "backward"
             /\ allSteps(Cur)[N + i].nodeId = executionOrder[N + 1 - i]
       /\ ~rewound =>
             /\ \A k \in 1..(2 * N) :
                   Executed(allSteps(Cur)[k]) <=> (k <= currentStepIndex + 1)
             /\ (\E i \in 1..N : Executed(backwardSteps[i]))
                   => \A i \in 1..N : Executed(forwardSteps[i])

C5_Witness ==
    /\ Len(executionOrder) >= 3
    /\ ~rewound
    /\ mode = "backward"
    /\ currentStepIndex = Len(executionOrder) + 1

\* C7: stepForward() at the last step returns false and changes nothing;
\* anywhere else it returns true and moves the cursor on by one.
C7_StepForwardAtEnd ==
    [][op'.name = "stepForward" =>
         IF currentStepIndex = totalSteps(Cur) - 1
         THEN /\ ret' = FALSE
              /\ UNCHANGED <<nodes, forwardSteps, backwardSteps,
                             currentStepIndex, mode, pendingGradients>>
         ELSE /\ ret' = TRUE
              /\ currentStepIndex' = currentStepIndex + 1]_vars

C7_Witness ==
    /\ op.name = "stepForward"
    /\ ret = FALSE
    /\ AtEnd
    /\ \E v \in DOMAIN pendingGradients : pendingGradients[v] # 0

\* C8: stepBackward() returns false and changes nothing before the first
\* step; otherwise it clears the active flag of the current step's nodes,
\* moves the cursor back by one and returns true, and on leaving step 0 the
\* graph is reset and the mode is idle.
C8_StepBackward ==
    [][op'.name = "stepBackward" =>
         IF currentStepIndex < 0
         THEN /\ ret' = FALSE
              /\ UNCHANGED <<nodes, forwardSteps, backwardSteps,
                             currentStepIndex, mode, pendingGradients>>
         ELSE /\ ret' = TRUE
              /\ currentStepIndex' = currentStepIndex - 1
              /\ \A id \in Range(allSteps(Cur)[currentStepIndex + 1].activeNodeIds) :
                    ~nodes'[id].isActive
              /\ currentStepIndex' < 0 =>
                    /\ mode' = "idle"
                    /\ \A id \in DOMAIN nodes' :
                          nodes'[id].gradient = 0 /\ ~nodes'[id].isActive]_vars

C8_Witness ==
    /\ op.name = "stepBackward"
    /\ ret = TRUE
    /\ currentStepIndex = -1
    /\ mode = "idle"
    /\ Len(executionOrder) >= 2

\* ------------------------------------------------------------------------
\* Properties of the graph (GraphSpec)
\* ------------------------------------------------------------------------
\* the nodes the output reaches through input references
RECURSIVE InputClosure(_, _)
InputClosure(ns, S) ==
    LET T == S \cup UNION {Range(ns[id].inputs) : id \in S}
    IN IF T = S THEN S ELSE InputClosure(ns, T)

Reachable(ns, out) == IF out = 0 THEN {} ELSE InputClosure(ns, {out})

\* the values are those forward() leaves on the current leaf values
Forwarded == nodes = graphForward(nodes, executionOrder)

OrderConsumers(v) ==
    {c \in Range(executionOrder) : v \in Range(nodes[c].inputs)}

\* the number of input paths from the output down to v
RECURSIVE PathCount(_)
PathCount(v) ==
    IF v = outputNode THEN 1
    ELSE SetSum(OrderConsumers(v),
                [c \in OrderConsumers(v) |->
                    PathCount(c) * Cardinality({i \in 1..Len(nodes[c].inputs) :
                                                   nodes[c].inputs[i] = v})])

\* the chain rule summed over every path from the output down to v
RECURSIVE PathGradient(_)
PathGradient(v) ==
    IF v = outputNode THEN 1
    ELSE SetSum(OrderConsumers(v),
                [c \in OrderConsumers(v) |->
                    LET g == InputGrads(nodes, c, PathGradient(c))
                    IN SeqSum([i \in 1..Len(g) |->
                                  IF nodes[c].inputs[i] = v THEN g[i] ELSE 0])])

\* C3: after forward() and backward(), a node the output reaches along more
\* than one path is in the execution order once and holds the sum of the
\* gradient contributions of all those paths.
AfterForwardBackward ==
    op.name = "graph.backward" /\ op.arg = 1 /\ Forwarded

C3_SharedNodeGradient ==
    (AfterForwardBackward /\ outputNode # 0) =>
        \A v \in Range(executionOrder) :
            PathCount(v) >= 2 =>
                /\ Cardinality({i \in 1..Len(executionOrder) : executionOrder[i] = v}) = 1
                /\ nodes[v].gradient = PathGradient(v)

\* C4: after setOutput(o) the execution order holds exactly the nodes o
\* reaches, each once, every node after all of its inputs, and o last.
C4_TopologicalOrder ==
    outputNode # 0 =>
        /\ Range(executionOrder) = Reachable(nodes, outputNode)
        /\ Len(executionOrder) = Cardinality(Range(executionOrder))
        /\ \A i \in 1..Len(executionOrder) :
              \A j \in Range(nodes[executionOrder[i]].inputs) :
                  \E k \in 1..(i - 1) : executionOrder[k] = j
        /\ executionOrder[Len(executionOrder)] = outputNode

C4_Witness ==
    /\ op.name = "setOutput"
    /\ Len(executionOrder) = 3
    /\ \E v \in Range(executionOrder) : Cardinality(OrderConsumers(v)) >= 2

\* C6: a Max node holds max(a, b) after forward, and backward gives the
\* whole upstream gradient to the winning input and 0 to the other; on a tie
\* the first operand wins.
C6_MaxTieBreak ==
    \A m \in NodeIds :
        LET in1 == nodes[m].inputs[1]
            in2 == nodes[m].inputs[2]
            a == nodes[in1].value
            b == nodes[in2].value
        IN (/\ AfterForwardBackward /\ outputNode = m
            /\ nodes[m].type = "max"
            /\ in1 # in2
            /\ nodes[in1].type \in LeafTypes /\ nodes[in2].type \in LeafTypes)
           => /\ nodes[m].value = Max2(a, b)
              /\ nodes[in1].gradient = (IF a >= b THEN 1 ELSE 0)
              /\ nodes[in2].gradient = (IF a >= b THEN 0 ELSE 1)

\* --- graph-level calls on a graph that an engine also steps through ------
SharedExamples ==
    {MultiplicationExample, MaxTieExample, SquareByMultiplyExample,
     UnusedNodeExample, NoOutputExample, ScaledProductExample}

SharedInit ==
    /\ \E g \in SharedExamples :
          LET e == NewEngine(g)
          IN /\ nodes = e.nodes
             /\ outputNode = e.outputNode
             /\ executionOrder = e.executionOrder
             /\ forwardSteps = e.forwardSteps
             /\ backwardSteps = e.backwardSteps
             /\ currentStepIndex = e.currentStepIndex
             /\ mode = e.mode
             /\ pendingGradients = e.pendingGradients
             /\ ret = e.ret
    /\ op = [name |-> "new", arg |-> 0]
    /\ rewound = FALSE
    /\ layer = NoLayer
    /\ matrix = NoMatrix
    /\ network = NoNetwork
    /\ player = NoPlayer
    /\ test = NoTest

SharedNext ==
    \/ Reset
    \/ StepForward
    \/ StepBackward
    \/ JumpToStep
    \/ Forward
    \/ Backward
    \/ GraphReset

SharedSpec == SharedInit /\ [][SharedNext]_vars

\* the graph as constructed: leaves hold their values, every other node 0
Pristine(ns) ==
    [id \in DOMAIN ns |->
        NewNode(ns[id].type, ns[id].inputs,
                IF ns[id].type \in LeafTypes THEN ns[id].value ELSE 0)]

FirstPass == graphForward(Pristine(nodes), executionOrder)

\* C9: graph.reset() zeroes every gradient and active flag and keeps every
\* value; a forward() after any forward/backward/reset calls returns the
\* output value and leaves the node values of the first forward pass.
C9_IdempotentReset ==
    /\ [][op'.name = "graph.reset" =>
            \A id \in DOMAIN nodes' :
                /\ nodes'[id].gradient = 0
                /\ ~nodes'[id].isActive
                /\ nodes'[id].value = nodes[id].value]_vars
    /\ [](op.name = "graph.forward" =>
            /\ \A id \in DOMAIN nodes : nodes[id].value = FirstPass[id].value
            /\ outputNode # 0 => op.arg = FirstPass[outputNode].value)

C9_Witness ==
    /\ op.name = "graph.forward"
    /\ outputNode # 0
    /\ nodes[outputNode].value # 0
    /\ nodes[outputNode].type \notin LeafTypes
    /\ \A id \in DOMAIN nodes : nodes[id].gradient = 0 /\ ~nodes[id].isActive
    /\ currentStepIndex >= Len(executionOrder)

\* ------------------------------------------------------------------------
\* Matrix (Matrix.ts): a matrix is the sequence of its rows; null is <<>>
\* ------------------------------------------------------------------------
Null == <<>>

Rows(m) == Len(m)

Cols(m) == Len(m[1])

zeros(r, c) == [i \in 1..r |-> [j \in 1..c |-> 0]]

ones(r, c) == [i \in 1..r |-> [j \in 1..c |-> 1]]

\* the product computed with the index of the second operand turned round
multiplyIndexSwapped(a, b) ==
    [i \in 1..Rows(a) |->
        [j \in 1..Cols(b) |->
            SeqSum([k \in 1..Cols(a) |-> a[i][k] * b[Cols(a) + 1 - k][j]])]]

\* the callers below test this.cols = other.rows before calling
multiply(a, b) ==
    [i \in 1..Rows(a) |->
        [j \in 1..Cols(b) |->
            SeqSum([k \in 1..Cols(a) |-> a[i][k] * b[k][j]])]]

SameShape(a, b) == Rows(a) = Rows(b) /\ Cols(a) = Cols(b)

\* the callers below test SameShape before calling
hadamard(a, b) ==
    [i \in 1..Rows(a) |-> [j \in 1..Cols(a) |-> a[i][j] * b[i][j]]]

add(a, b) ==
    [i \in 1..Rows(a) |-> [j \in 1..Cols(a) |-> a[i][j] + b[i][j]]]

scale(m, scalar) ==
    [i \in 1..Rows(m) |-> [j \in 1..Cols(m) |-> m[i][j] * scalar]]

subtract(a, b) == add(a, scale(b, -1))

transpose(m) ==
    [j \in 1..Cols(m) |-> [i \in 1..Rows(m) |-> m[i][j]]]

\* x * (1 / batchSize) and sum / batchSize; the batches of the model carry
\* even gradients whenever they have two columns, so the quotient is exact
Average(x, batchSize) == x \div batchSize

\* ------------------------------------------------------------------------
\* Activation (Activation.ts): the two piecewise-linear functions
\* ------------------------------------------------------------------------
ActivationTypes == {"relu", "linear"}

reluForward(val) == Max2(0, val)

reluBackward(val) == IF val > 0 THEN 1 ELSE 0

activationForward(name, x) ==
    IF name = "relu"
    THEN [i \in 1..Rows(x) |-> [j \in 1..Cols(x) |-> reluForward(x[i][j])]]
    ELSE x

activationBackward(name, x) ==
    IF name = "relu"
    THEN [i \in 1..Rows(x) |-> [j \in 1..Cols(x) |-> reluBackward(x[i][j])]]
    ELSE ones(Rows(x), Cols(x))

\* ------------------------------------------------------------------------
\* Layer (Layer.ts).  threw and out record how the last call ended: whether
\* it raised, and the matrix it returned (Null for none).  inCycle and graded
\* are history fields the actions keep: a forward has succeeded since
\* construction and since the last backward that succeeded; a backward has
\* succeeded since construction and since the last resetGradients.
\* ------------------------------------------------------------------------
NewLayer(config, w) ==
    [built      |-> TRUE,
     inputSize  |-> config.inputSize,
     outputSize |-> config.outputSize,
     activation |-> config.activation,
     useBias    |-> config.useBias,
     weights    |-> w,
     biases     |-> zeros(config.outputSize, 1),
     lastInput  |-> Null,
     lastZ      |-> Null,
     lastA      |-> Null,
     dWeights   |-> Null,
     dBiases    |-> Null,
     threw      |-> FALSE,
     out        |-> Null,
     inCycle    |-> FALSE,
     graded     |-> FALSE]

Throw(l) == [l EXCEPT !.threw = TRUE, !.out = Null]

addBias(z, biases) ==
    [row \in 1..Rows(z) |-> [col \in 1..Cols(z) |-> z[row][col] + biases[row][1]]]

\* a forward that caches its input before it validates it
layerForwardCacheFirst(l, input) ==
    IF Rows(input) # l.inputSize
    THEN [Throw(l) EXCEPT !.lastInput = input]
    ELSE LET wx == multiply(l.weights, input)
             z == IF l.useBias THEN addBias(wx, l.biases) ELSE wx
             a == activationForward(l.activation, z)
         IN [l EXCEPT !.lastInput = input, !.lastZ = z, !.lastA = a,
                      !.threw = FALSE, !.out = a]

layerForward(l, input) ==
    IF Rows(input) # l.inputSize
    THEN Throw(l)
    ELSE LET wx == multiply(l.weights, input)
             z == IF l.useBias THEN addBias(wx, l.biases) ELSE wx
             a == activationForward(l.activation, z)
         IN [l EXCEPT !.lastInput = input, !.lastZ = z, !.lastA = a,
                      !.threw = FALSE, !.out = a]

rowSums(dZ, batchSize) ==
    [row \in 1..Rows(dZ) |-> <<Average(SeqSum(dZ[row]), batchSize)>>]

layerBackward(l, dLoss) ==
    IF l.lastInput = Null \/ l.lastZ = Null \/ l.lastA = Null
    THEN Throw(l)
    ELSE IF Rows(dLoss) # l.outputSize
    THEN Throw(l)
    ELSE LET batchSize == Cols(l.lastInput)
             activationGradient == activationBackward(l.activation, l.lastZ)
         IN IF ~SameShape(dLoss, activationGradient)
            THEN Throw(l)
            ELSE LET dZ == hadamard(dLoss, activationGradient)
                     product == multiply(dZ, transpose(l.lastInput))
                     dW == [i \in 1..Rows(product) |->
                              [j \in 1..Cols(product) |->
                                  Average(product[i][j], batchSize)]]
                     dInput == multiply(transpose(l.weights), dZ)
                 IN [l EXCEPT !.dWeights = dW,
                              !.dBiases = IF l.useBias
                                          THEN rowSums(dZ, batchSize) ELSE @,
                              !.threw = FALSE, !.out = dInput]

\* a gradient step in the wrong direction
updateWeightsAscent(l, learningRate) ==
    IF l.dWeights = Null
    THEN Throw(l)
    ELSE [l EXCEPT !.weights = add(@, scale(l.dWeights, learningRate)),
                   !.biases = IF l.useBias /\ l.dBiases # Null
                              THEN add(@, scale(l.dBiases, learningRate))
                              ELSE @,
                   !.threw = FALSE, !.out = Null]

updateWeights(l, learningRate) ==
    IF l.dWeights = Null
    THEN Throw(l)
    ELSE [l EXCEPT !.weights = subtract(@, scale(l.dWeights, learningRate)),
                   !.biases = IF l.useBias /\ l.dBiases # Null
                              THEN subtract(@, scale(l.dBiases, learningRate))
                              ELSE @,
                   !.threw = FALSE, !.out = Null]

resetGradients(l) ==
    [l EXCEPT !.dWeights = Null, !.dBiases = Null, !.threw = FALSE, !.out = Null]

\* ------------------------------------------------------------------------
\* The layer on its own: one layer of two inputs and one output, driven by
\* its four operations
\* ------------------------------------------------------------------------
LayerConfigs ==
    [inputSize : {2}, outputSize : {1},
     activation : ActivationTypes, useBias : BOOLEAN]

\* Matrix.random draws from [-limit, limit) with limit = sqrt(6 / 3)
InitialWeights == {<<<<1, -1>>>>, <<<<-1, 1>>>>, <<<<1, 1>>>>}

\* two single samples, a batch of two, and a vector of the wrong height
LayerInputs ==
    {<<<<1>>, <<-1>>>>, <<<<1>>, <<1>>>>, <<<<2, 0>>, <<0, -2>>>>, <<<<1>>>>}

LossGradients ==
    {<<<<1>>>>, <<<<-1>>>>, <<<<2, -2>>>>, <<<<1>>, <<1>>>>}

LearningRates == {1, 2}

Bounded(m) == \A i \in 1..Rows(m) : \A j \in 1..Cols(m) : Abs(m[i][j]) <= MaxWeight

LayerInit ==
    /\ nodes = <<>>
    /\ outputNode = 0
    /\ executionOrder = <<>>
    /\ NoEngine
    /\ op = [name |-> "new Layer", arg |-> 0]
    /\ rewound = FALSE
    /\ layer \in {NewLayer(c, w) : c \in LayerConfigs, w \in InitialWeights}
    /\ matrix = NoMatrix
    /\ network = NoNetwork
    /\ player = NoPlayer
    /\ test = NoTest

graphVars == <<nodes, outputNode, executionOrder, engineVars>>

LayerForward ==
    \E input \in LayerInputs :
        LET r == layerForward(layer, input)
        IN /\ layer' = [r EXCEPT !.inCycle = IF r.threw THEN @ ELSE TRUE]
           /\ Did("layer.forward", Rows(input))
           /\ UNCHANGED <<graphVars, matrix, network, player, test>>

LayerBackward ==
    \E dLoss \in LossGradients :
        LET r == layerBackward(layer, dLoss)
        IN /\ layer' = [r EXCEPT !.inCycle = IF r.threw THEN @ ELSE FALSE,
                                 !.graded = IF r.threw THEN @ ELSE TRUE]
           /\ Did("layer.backward", Rows(dLoss))
           /\ UNCHANGED <<graphVars, matrix, network, player, test>>

UpdateWeights ==
    \E learningRate \in LearningRates :
        LET r == updateWeights(layer, learningRate)
        IN /\ Bounded(r.weights) /\ Bounded(r.biases)
           /\ layer' = r
           /\ Did("layer.updateWeights", learningRate)
           /\ UNCHANGED <<graphVars, matrix, network, player, test>>

ResetGradients ==
    /\ layer' = [resetGradients(layer) EXCEPT !.graded = FALSE]
    /\ Did("layer.resetGradients", 0)
    /\ UNCHANGED <<graphVars, matrix, network, player, test>>

LayerNext ==
    \/ LayerForward
    \/ LayerBackward
    \/ UpdateWeights
    \/ ResetGradients

LayerSpec == LayerInit /\ [][LayerNext]_vars

\* ------------------------------------------------------------------------
\* Claims about the layer
\* ------------------------------------------------------------------------
Parameters(l) == <<l.weights, l.biases, l.dWeights, l.dBiases>>

\* C10: Layer.backward succeeds only if a forward has populated the cache
\* since construction and since the previous backward; a backward with no
\* such forward raises and leaves weights, biases and the pending weight and
\* bias gradients unchanged.
C10_CacheLifecycle ==
    [][(op'.name = "layer.backward" /\ ~layer.inCycle)
          => /\ layer'.threw
             /\ Parameters(layer') = Parameters(layer)]_vars

\* the bias gradient waiting to be applied; a layer without bias has none
PendingBiasGradient(l) ==
    IF l.dBiases = Null THEN zeros(l.outputSize, 1) ELSE l.dBiases

\* C11: updateWeights(lr) raises and leaves weights and biases unchanged
\* whenever no backward has produced gradients since construction or since
\* the last resetGradients(); after a successful backward it does not raise
\* and replaces weights by W - lr*dW and biases by b - lr*db.
C11_UpdateWeights ==
    [][op'.name = "layer.updateWeights" =>
          IF layer.graded
          THEN /\ ~layer'.threw
               /\ layer'.weights =
                      subtract(layer.weights, scale(layer.dWeights, op'.arg))
               /\ layer'.biases =
                      subtract(layer.biases,
                               scale(PendingBiasGradient(layer), op'.arg))
          ELSE /\ layer'.threw
               /\ layer'.weights = layer.weights
               /\ layer'.biases = layer.biases]_vars

Nonzero(m) == \E i \in 1..Rows(m) : \E j \in 1..Cols(m) : m[i][j] # 0

C11_Witness ==
    /\ op.name = "layer.updateWeights"
    /\ op.arg = 2
    /\ ~layer.threw
    /\ layer.useBias
    /\ Nonzero(layer.dWeights)
    /\ Nonzero(layer.dBiases)
    /\ layer.biases # zeros(layer.outputSize, 1)

Cache(l) == <<l.lastInput, l.lastZ, l.lastA>>

\* C12: forward(input) with input.rows # inputSize raises and leaves the
\* cache, the weights, the biases and the gradients as they were;
\* backward(dLoss) with dLoss.rows # outputSize raises and leaves the pending
\* gradients as they were.
C12_ShapeErrors ==
    /\ [][(op'.name = "layer.forward" /\ op'.arg # layer.inputSize)
             => /\ layer'.threw
                /\ Cache(layer') = Cache(layer)
                /\ Parameters(layer') = Parameters(layer)]_vars
    /\ [][(op'.name = "layer.backward" /\ op'.arg # layer.outputSize)
             => /\ layer'.threw
                /\ layer'.dWeights = layer.dWeights
                /\ layer'.dBiases = layer.dBiases]_vars

C12_Witness ==
    /\ op.name = "layer.forward"
    /\ op.arg # layer.inputSize
    /\ layer.threw
    /\ layer.lastInput # Null
    /\ layer.dWeights # Null
    /\ layer.weights \notin InitialWeights

\* ------------------------------------------------------------------------
\* Matrix objects (Matrix.ts): rows, cols and data as the class keeps them,
\* and every call with its outcome: whether it raised, the message of the
\* error, whether it returned a matrix, the matrix, and the two operands as
\* the call leaves them
\* ------------------------------------------------------------------------
MatrixOf(rows, cols, data) == [rows |-> rows, cols |-> cols, data |-> data]

NoMessage == [text |-> "", shapes |-> <<>>]

NoResult == MatrixOf(0, 0, <<>>)

Returned(this, other, result) ==
    [threw |-> FALSE, message |-> NoMessage, returned |-> TRUE,
     result |-> result, this |-> this, other |-> other]

Failed(this, other, text, shapes) ==
    [threw |-> TRUE, message |-> [text |-> text, shapes |-> shapes],
     returned |-> FALSE, result |-> NoResult, this |-> this, other |-> other]

\* new Matrix(rows, cols, data); reading data[0].length of an empty array
\* is a TypeError
Matrix_constructor(rows, cols, data) ==
    IF data = <<>>
    THEN Failed(NoResult, NoResult, "TypeError", <<>>)
    ELSE IF Len(data) # rows \/ Len(data[1]) # cols
    THEN Failed(NoResult, NoResult, "Data dimensions",
                <<Len(data), Len(data[1]), rows, cols>>)
    ELSE Returned(NoResult, NoResult, MatrixOf(rows, cols, data))

\* new Matrix(rows, cols)
Matrix_zeros(rows, cols) ==
    Returned(NoResult, NoResult, MatrixOf(rows, cols, zeros(rows, cols)))

Matrix_ones(rows, cols) ==
    Matrix_constructor(rows, cols, ones(rows, cols))

Matrix_fromArray(arr, asColumn) ==
    IF asColumn
    THEN Matrix_constructor(Len(arr), 1, [i \in 1..Len(arr) |-> <<arr[i]>>])
    ELSE Matrix_constructor(1, Len(arr), <<arr>>)

\* a multiply that also wants the outer dimensions to agree
Matrix_multiplyStrict(this, other) ==
    IF this.cols # other.rows \/ this.rows # other.cols
    THEN Failed(this, other, "Cannot multiply",
                <<this.rows, this.cols, other.rows, other.cols>>)
    ELSE Returned(this, other,
                  MatrixOf(this.rows, other.cols, multiply(this.data, other.data)))

Matrix_multiply(this, other) ==
    IF this.cols # other.rows
    THEN Failed(this, other, "Cannot multiply",
                <<this.rows, this.cols, other.rows, other.cols>>)
    ELSE Returned(this, other,
                  MatrixOf(this.rows, other.cols, multiply(this.data, other.data)))

Matrix_hadamard(this, other) ==
    IF this.rows # other.rows \/ this.cols # other.cols
    THEN Failed(this, other, "Cannot element-wise multiply",
                <<this.rows, this.cols, other.rows, other.cols>>)
    ELSE Returned(this, other,
                  MatrixOf(this.rows, this.cols, hadamard(this.data, other.data)))

Matrix_add(this, other) ==
    IF this.rows # other.rows \/ this.cols # other.cols
    THEN Failed(this, other, "Cannot add",
                <<this.rows, this.cols, other.rows, other.cols>>)
    ELSE Returned(this, other,
                  MatrixOf(this.rows, this.cols, add(this.data, other.data)))

Matrix_scale(this, scalar) ==
    Returned(this, NoResult,
             MatrixOf(this.rows, this.cols, scale(this.data, scalar)))

\* this.add(other.scale(-1)): the error, if any, is the one add raises
Matrix_subtract(this, other) ==
    LET negated == Matrix_scale(other, -1)
        sum == Matrix_add(this, negated.result)
    IN [sum EXCEPT !.other = negated.this]

Matrix_transpose(this) ==
    Returned(this, NoResult,
             MatrixOf(this.cols, this.rows, transpose(this.data)))

\* ------------------------------------------------------------------------
\* The matrix calls on their own: two operands chosen at the start, every
\* construction and every operation applied to them
\* ------------------------------------------------------------------------
Dims == {1, 2}

\* the data handed to the constructor: rectangular, ragged and empty
DataInputs ==
    {<<<<1, 2>>, <<3, 4>>>>, <<<<1, 2>>, <<3>>>>, <<<<1, 2>>, <<3, 4, 5>>>>,
     <<<<1>>, <<2, 3>>>>, <<<<5>>>>, <<<<1, 2>>>>, <<<<1>>, <<2>>>>, <<>>}

ArrayInputs == {<<3>>, <<1, -2>>, <<>>}

Scalars == {-1, 2}

\* the matrices of testMatrixOperations and a few smaller ones
MatrixOperands ==
    {MatrixOf(2, 3, <<<<1, 2, 3>>, <<4, 5, 6>>>>),
     MatrixOf(3, 2, <<<<7, 8>>, <<9, 10>>, <<11, 12>>>>),
     MatrixOf(2, 2, <<<<1, -1>>, <<0, 2>>>>),
     MatrixOf(2, 2, <<<<2, 0>>, <<1, 1>>>>),
     MatrixOf(1, 2, <<<<1, -1>>>>),
     MatrixOf(2, 1, <<<<2>>, <<-1>>>>),
     MatrixOf(1, 1, <<<<3>>>>),
     MatrixOf(3, 1, <<<<1>>, <<0>>, <<-2>>>>),
     MatrixOf(1, 3, <<<<2, -1, 1>>>>)}

NoCall == Returned(NoResult, NoResult, NoResult)

MatrixInit ==
    /\ nodes = <<>>
    /\ outputNode = 0
    /\ executionOrder = <<>>
    /\ NoEngine
    /\ op = [name |-> "new", arg |-> 0]
    /\ rewound = FALSE
    /\ layer = NoLayer
    /\ network = NoNetwork
    /\ player = NoPlayer
    /\ test = NoTest
    /\ matrix \in [built : {TRUE}, a : MatrixOperands, b : MatrixOperands,
                   given : {NoResult}, call : {[NoCall EXCEPT !.returned = FALSE]}]

matrixFrame == <<graphVars, layer, network, player, test>>

\* a construction: the operands stay, given records what was asked for
Constructed(rows, cols, data, outcome) ==
    [matrix EXCEPT !.given = MatrixOf(rows, cols, data), !.call = outcome]

\* an operation on the operands: they become what the call leaves of them
Operated(outcome, binary) ==
    [matrix EXCEPT !.a = outcome.this,
                   !.b = IF binary THEN outcome.other ELSE @,
                   !.given = NoResult,
                   !.call = outcome]

MatrixConstruct ==
    \E rows \in Dims, cols \in Dims, data \in DataInputs :
        /\ matrix' = Constructed(rows, cols, data,
                                 Matrix_constructor(rows, cols, data))
        /\ Did("new Matrix", 0)
        /\ UNCHANGED matrixFrame

MatrixZeros ==
    \E rows \in Dims, cols \in Dims :
        /\ matrix' = Constructed(rows, cols, <<>>, Matrix_zeros(rows, cols))
        /\ Did("Matrix.zeros", 0)
        /\ UNCHANGED matrixFrame

MatrixOnes ==
    \E rows \in Dims, cols \in Dims :
        /\ matrix' = Constructed(rows, cols, <<>>, Matrix_ones(rows, cols))
        /\ Did("Matrix.ones", 0)
        /\ UNCHANGED matrixFrame

MatrixFromArray ==
    \E arr \in ArrayInputs, asColumn \in BOOLEAN :
        /\ matrix' = Constructed(IF asColumn THEN Len(arr) ELSE 1,
                                 IF asColumn THEN 1 ELSE Len(arr),
                                 <<arr>>, Matrix_fromArray(arr, asColumn))
        /\ Did("Matrix.fromArray", 0)
        /\ UNCHANGED matrixFrame

MatrixMultiply ==
    /\ matrix' = Operated(Matrix_multiply(matrix.a, matrix.b), TRUE)
    /\ Did("matrix.multiply", 0)
    /\ UNCHANGED matrixFrame

MatrixHadamard ==
    /\ matrix' = Operated(Matrix_hadamard(matrix.a, matrix.b), TRUE)
    /\ Did("matrix.hadamard", 0)
    /\ UNCHANGED matrixFrame

MatrixAdd ==
    /\ matrix' = Operated(Matrix_add(matrix.a, matrix.b), TRUE)
    /\ Did("matrix.add", 0)
    /\ UNCHANGED matrixFrame

MatrixSubtract ==
    /\ matrix' = Operated(Matrix_subtract(matrix.a, matrix.b), TRUE)
    /\ Did("matrix.subtract", 0)
    /\ UNCHANGED matrixFrame

MatrixScale ==
    \E scalar \in Scalars :
        /\ matrix' = Operated(Matrix_scale(matrix.a, scalar), FALSE)
        /\ Did("matrix.scale", scalar)
        /\ UNCHANGED matrixFrame

MatrixTranspose ==
    /\ matrix' = Operated(Matrix_transpose(matrix.a), FALSE)
    /\ Did("matrix.transpose", 0)
    /\ UNCHANGED matrixFrame

MatrixNext ==
    \/ MatrixConstruct
    \/ MatrixZeros
    \/ MatrixOnes
    \/ MatrixFromArray
    \/ MatrixMultiply
    \/ MatrixHadamard
    \/ MatrixAdd
    \/ MatrixSubtract
    \/ MatrixScale
    \/ MatrixTranspose

MatrixSpec == MatrixInit /\ [][MatrixNext]_vars

\* ------------------------------------------------------------------------
\* Claims about the matrix calls
\* ------------------------------------------------------------------------
BothShapes(this, other) == <<this.rows, this.cols, other.rows, other.cols>>

SameDims(this, other) == this.rows = other.rows /\ this.cols = other.cols

ShapeChecked == {"matrix.multiply", "matrix.hadamard", "matrix.add", "matrix.subtract"}

\* C13: multiply fails exactly when this.cols # other.rows; hadamard, add
\* and subtract fail exactly when the shapes differ; a failure returns no
\* matrix, leaves both operands as they were and names both shapes.
C13_ShapeErrors ==
    [][op'.name \in ShapeChecked =>
          LET fits == IF op'.name = "matrix.multiply"
                      THEN matrix.a.cols = matrix.b.rows
                      ELSE SameDims(matrix.a, matrix.b)
              call == matrix'.call
          IN /\ call.threw = ~fits
             /\ call.returned = fits
             /\ call.threw =>
                   /\ call.result = NoResult
                   /\ matrix'.a = matrix.a
                   /\ matrix'.b = matrix.b
                   /\ call.message.shapes = BothShapes(matrix.a, matrix.b)]_vars

C13_Witness ==
    /\ op.name = "matrix.subtract"
    /\ matrix.call.threw
    /\ matrix.a.rows = matrix.b.rows
    /\ matrix.a.cols # matrix.b.cols
    /\ matrix.call.message.text = "Cannot add"

Rectangular(m) ==
    /\ Len(m.data) = m.rows
    /\ \A i \in 1..Len(m.data) : Len(m.data[i]) = m.cols

\* C14: every matrix a construction or an operation returns has rows rows
\* of cols elements each, and a construction from data that is not so is
\* rejected.
C14_Rectangularity ==
    /\ matrix.call.returned => Rectangular(matrix.call.result)
    /\ (op.name = "new Matrix" /\ ~Rectangular(matrix.given)) => matrix.call.threw

TestA == MatrixOf(2, 3, <<<<1, 2, 3>>, <<4, 5, 6>>>>)

TestB == MatrixOf(3, 2, <<<<7, 8>>, <<9, 10>>, <<11, 12>>>>)

TestExpected == <<<<58, 64>>, <<139, 154>>>>

\* C15: the product of an m x n matrix A and an n x p matrix B is the m x p
\* matrix with entry (i, j) the sum over k of A[i][k] * B[k][j]; the product
\* of the two matrices of the test is [[58, 64], [139, 154]].
C15_MultiplyCorrect ==
    (op.name = "matrix.multiply" /\ matrix.a.cols = matrix.b.rows) =>
        LET A == matrix.a
            B == matrix.b
            C == matrix.call.result
        IN /\ matrix.call.returned
           /\ C.rows = A.rows /\ C.cols = B.cols /\ Rectangular(C)
           /\ \A i \in 1..A.rows : \A j \in 1..B.cols :
                 C.data[i][j] =
                     SetSum(1..A.cols, [k \in 1..A.cols |-> A.data[i][k] * B.data[k][j]])
           /\ (A = TestA /\ B = TestB) => C.data = TestExpected

C15_Witness ==
    /\ op.name = "matrix.multiply"
    /\ matrix.a = TestA
    /\ matrix.b = TestB
    /\ matrix.call.result = MatrixOf(2, 2, TestExpected)

\* ------------------------------------------------------------------------
\* Claims about single node rules
\* ------------------------------------------------------------------------
\* m is the only node of the pass that hands a gradient to v
SoleConsumer(m, v) == OrderConsumers(v) = {m}

\* C16: MultiplyNode.forward sets value = a * b and backward with upstream
\* gradient g hands b * g to the first input and a * g to the second; for
\* x = 2, y = 3 and upstream 1 the value is 6 and the gradients are 3 and 2.
C16_MultiplyRule ==
    AfterForwardBackward =>
        \A m \in Range(executionOrder) :
            nodes[m].type = "multiply" =>
                LET in1 == nodes[m].inputs[1]
                    in2 == nodes[m].inputs[2]
                    a == nodes[in1].value
                    b == nodes[in2].value
                    g == nodes[m].gradient
                IN /\ nodes[m].value = a * b
                   /\ SoleConsumer(m, in1) => nodes[in1].gradient = b * g
                   /\ SoleConsumer(m, in2) => nodes[in2].gradient = a * g
                   /\ (a = 2 /\ b = 3 /\ g = 1) =>
                         /\ nodes[m].value = 6
                         /\ nodes[in1].gradient = 3
                         /\ nodes[in2].gradient = 2

C16_Witness ==
    /\ AfterForwardBackward
    /\ outputNode = 5
    /\ nodes[4].type = "multiply"
    /\ nodes[4].gradient = -1
    /\ nodes[1].gradient = -3
    /\ nodes[2].gradient = -2

\* ------------------------------------------------------------------------
\* Loss (Loss.ts): mean squared error.  A number that a division produces
\* is kept as the pair <<numerator, denominator>>, never rounded; 0 / 0
\* (NaN) is <<0, 0>>.
\* ------------------------------------------------------------------------
Number(x) == <<x, 1>>

Divide(x, n) == <<x[1], x[2] * n>>

Plus(x, y) == <<x[1] * y[2] + y[1] * x[2], x[2] * y[2]>>

toArray(m) ==
    [k \in 1..(Rows(m) * Cols(m)) |->
        m[((k - 1) \div Cols(m)) + 1][((k - 1) % Cols(m)) + 1]]

\* sum / n
mseForward(predicted, target) ==
    LET diff == subtract(predicted, target)
        squaredDiff == hadamard(diff, diff)
        n == Rows(predicted) * Cols(predicted)
    IN Divide(Number(SeqSum(toArray(squaredDiff))), n)

\* scale(2 / n); n is 1 or 2 for the outputs of the model, so 2 / n is whole
mseBackward(predicted, target) ==
    LET n == Rows(predicted) * Cols(predicted)
    IN scale(subtract(predicted, target), 2 \div n)

\* ------------------------------------------------------------------------
\* NeuralNetwork (NeuralNetwork.ts).  threw, out and num record how the last
\* call ended: whether it raised, the matrix it returned (forward, predict)
\* and the number it returned (trainBatch, evaluate).  calls is a history
\* field: the calls that the last call of a public method made on the layers
\* and on the loss function, in order, each with its layer index.
\* ------------------------------------------------------------------------
NewNetwork(config, ws) ==
    [built            |-> TRUE,
     layers           |->
         [i \in 1..Len(config.layers) |->
             NewLayer([inputSize  |-> IF i = 1 THEN config.inputSize
                                      ELSE config.layers[i - 1].outputSize,
                       outputSize |-> config.layers[i].outputSize,
                       activation |-> config.layers[i].activation,
                       useBias    |-> TRUE],
                      ws[i])],
     learningRate     |-> config.learningRate,
     history          |-> <<>>,
     lastForwardPass  |-> <<>>,
     lastBackwardPass |-> <<>>,
     lastLoss         |-> Number(0),
     threw            |-> FALSE,
     out              |-> Null,
     num              |-> Number(0),
     calls            |-> <<>>]

NetThrow(net) == [net EXCEPT !.threw = TRUE, !.out = Null]

NetReturn(net, out, num) == [net EXCEPT !.threw = FALSE, !.out = out, !.num = num]

\* the history of a call of method name on layer i (counted from 1), or on
\* the loss function (i = 0)
Calling(net, name, i) == [net EXCEPT !.calls = Append(@, <<name, i - 1>>)]

\* a public method is entered
Entered(net) == [net EXCEPT !.calls = <<>>]

ForwardPassData(i, l) ==
    [layerIndex |-> i - 1, input |-> l.lastInput,
     preActivation |-> l.lastZ, activation |-> l.lastA]

RECURSIVE netForwardFrom(_, _, _)
netForwardFrom(net, output, i) ==
    IF i > Len(net.layers)
    THEN NetReturn(net, output, net.num)
    ELSE LET l == layerForward(net.layers[i], output)
             called == Calling(net, "forward", i)
         IN IF l.threw
            THEN NetThrow([called EXCEPT !.layers[i] = l])
            ELSE netForwardFrom(
                     [called EXCEPT !.layers[i] = l,
                                    !.lastForwardPass = Append(@, ForwardPassData(i, l))],
                     l.out, i + 1)

netForward(net, input) ==
    netForwardFrom([net EXCEPT !.lastForwardPass = <<>>], input, 1)

BackwardPassData(i, l) ==
    [layerIndex |-> i - 1, gradient |-> l.out,
     weightGradient |-> l.dWeights, biasGradient |-> l.dBiases]

RECURSIVE netBackwardFrom(_, _, _)
netBackwardFrom(net, gradient, i) ==
    IF i < 1
    THEN NetReturn(net, Null, net.num)
    ELSE LET l == layerBackward(net.layers[i], gradient)
             called == Calling(net, "backward", i)
         IN IF l.threw
            THEN NetThrow([called EXCEPT !.layers[i] = l])
            ELSE netBackwardFrom(
                     [called EXCEPT !.layers[i] = l,
                                    !.lastBackwardPass =
                                        IF l.dWeights # Null /\ l.dBiases # Null
                                        THEN <<BackwardPassData(i, l)>> \o @
                                        ELSE @],
                     l.out, i - 1)

netBackward(net, predicted, target) ==
    LET cleared == Calling([net EXCEPT !.lastBackwardPass = <<>>],
                           "lossFunction.backward", 0)
    IN IF ~SameShape(predicted, target)
       THEN NetThrow(cleared)
       ELSE netBackwardFrom(cleared, mseBackward(predicted, target),
                            Len(net.layers))

RECURSIVE netUpdateWeightsFrom(_, _)
netUpdateWeightsFrom(net, i) ==
    IF i > Len(net.layers)
    THEN NetReturn(net, Null, net.num)
    ELSE LET l == updateWeights(net.layers[i], net.learningRate)
             called == Calling(net, "updateWeights", i)
         IN IF l.threw
            THEN NetThrow([called EXCEPT !.layers[i] = l])
            ELSE netUpdateWeightsFrom([called EXCEPT !.layers[i] = l], i + 1)

netUpdateWeights(net) == netUpdateWeightsFrom(net, 1)

\* trainBatch in its four stages; each stage takes the network as the stage
\* before leaves it
updated(net) ==
    IF net.threw THEN net ELSE NetReturn(net, Null, net.lastLoss)

\* a trainBatch that returns after the backward pass
backwardedOnly(net) ==
    IF net.threw THEN net ELSE updated(net)

backwarded(net) ==
    IF net.threw THEN net ELSE updated(netUpdateWeights(net))

lossComputed(net, target) ==
    IF ~SameShape(net.out, target) THEN NetThrow(net)
    ELSE backwarded(netBackward(
             [net EXCEPT !.lastLoss = mseForward(net.out, target)],
             net.out, target))

forwarded(net, target) ==
    IF net.threw THEN net
    ELSE lossComputed(Calling(net, "lossFunction.forward", 0), target)

trainBatch(net, input, target) == forwarded(netForward(net, input), target)

\* a history entry numbered from 0
TrainingHistoryZeroBased(epoch, avgLoss) == [epoch |-> epoch, loss |-> avgLoss]

TrainingHistory(epoch, avgLoss) == [epoch |-> epoch + 1, loss |-> avgLoss]

\* the samples of one epoch, in order; a call that raises ends the epoch.
\* sampled takes the network as trainBatch leaves it.
RECURSIVE trainSamples(_, _, _, _, _)
sampled(trained, inputs, targets, i, totalLoss) ==
    IF trained.threw
    THEN [net |-> trained, totalLoss |-> totalLoss]
    ELSE trainSamples(trained, inputs, targets, i + 1,
                      Plus(totalLoss, trained.num))

trainSamples(net, inputs, targets, i, totalLoss) ==
    IF i > Len(inputs)
    THEN [net |-> net, totalLoss |-> totalLoss]
    ELSE sampled(trainBatch(net, inputs[i], targets[i]),
                 inputs, targets, i, totalLoss)

\* the epochs in order; passed takes the outcome of the samples of one epoch
\* and appends its history entry
RECURSIVE trainEpochs(_, _, _, _, _)
passed(pass, inputs, targets, epochs, epoch) ==
    IF pass.net.threw
    THEN pass.net
    ELSE trainEpochs(
             [pass.net EXCEPT
                 !.history = Append(@, TrainingHistory(
                                 epoch, Divide(pass.totalLoss, Len(inputs))))],
             inputs, targets, epochs, epoch + 1)

trainEpochs(net, inputs, targets, epochs, epoch) ==
    IF epoch >= epochs
    THEN NetReturn(net, Null, net.num)
    ELSE passed(trainSamples(net, inputs, targets, 1, Number(0)),
                inputs, targets, epochs, epoch)

\* a train that compares the lengths only after the epochs have run
trainCheckLast(net, inputs, targets, epochs) ==
    LET shorter == IF Len(inputs) <= Len(targets) THEN inputs
                   ELSE SubSeq(inputs, 1, Len(targets))
        trained == trainEpochs(net, shorter, targets, epochs, 0)
    IN IF Len(inputs) # Len(targets) THEN NetThrow(trained) ELSE trained

train(net, inputs, targets, epochs) ==
    IF Len(inputs) # Len(targets)
    THEN NetThrow(net)
    ELSE trainEpochs(net, inputs, targets, epochs, 0)

predict(net, input) == netForward(net, input)

\* the first row of column 0 that holds the largest value
RECURSIVE argmax(_, _, _)
argmax(m, j, best) ==
    IF j > Rows(m) THEN best
    ELSE argmax(m, j + 1, IF m[j][1] > m[best][1] THEN j ELSE best)

\* reading targets[i] past the end of targets gives undefined, and
\* target.get raises
RECURSIVE evaluateFrom(_, _, _, _, _)
evaluateFrom(net, inputs, targets, i, correct) ==
    IF i > Len(inputs)
    THEN NetReturn(net, Null, Divide(Number(correct), Len(inputs)))
    ELSE LET predicted == predict(net, inputs[i])
         IN IF predicted.threw THEN predicted
            ELSE IF i > Len(targets) THEN NetThrow(predicted)
            ELSE evaluateFrom(
                     predicted, inputs, targets, i + 1,
                     IF argmax(predicted.out, 2, 1) = argmax(targets[i], 2, 1)
                     THEN correct + 1 ELSE correct)

evaluate(net, inputs, targets) == evaluateFrom(net, inputs, targets, 1, 0)

resetHistory(net) == NetReturn([net EXCEPT !.history = <<>>], Null, net.num)

\* ------------------------------------------------------------------------
\* The network on its own: one dense layer from one input to one output,
\* mean squared error, learning rate 1
\* ------------------------------------------------------------------------
NetworkConfigs ==
    {[inputSize |-> 1, loss |-> "mse", learningRate |-> 1,
      layers |-> <<[outputSize |-> 1, activation |-> a]>>] : a \in ActivationTypes}

\* two and three dense layers in a chain
DeepConfigs ==
    {[inputSize |-> 1, loss |-> "mse", learningRate |-> 1,
      layers |-> <<[outputSize |-> 1, activation |-> "relu"],
                   [outputSize |-> 1, activation |-> a]>>] : a \in ActivationTypes}
    \cup {[inputSize |-> 1, loss |-> "mse", learningRate |-> 1,
            layers |-> <<[outputSize |-> 1, activation |-> "linear"],
                         [outputSize |-> 1, activation |-> "relu"],
                         [outputSize |-> 1, activation |-> "linear"]>>]}

\* the initial weights of each layer, in place of Matrix.random
NetworkWeights ==
    {<<<<<<1>>>>>>, <<<<<<1>>>>, <<<<1>>>>>>, <<<<<<1>>>>, <<<<1>>>>, <<<<1>>>>>>,
     <<<<<<1>>>>, <<<<-1>>>>>>, <<<<<<-1>>>>, <<<<1>>>>, <<<<1>>>>>>}

SampleInputs == {<<<<1>>>>, <<<<1>>, <<1>>>>}

SamplePredictions == {<<<<1>>>>}

SampleTargets == {<<<<0>>>>, <<<<1>>>>}

\* inputs and targets of train and evaluate: one and two samples, lists of
\* different lengths, and a sample of the wrong height
TrainingSets ==
    {<< <<<<<<1>>>>>>, <<<<<<0>>>>>> >>,
     << <<<<<<1>>>>, <<<<1>>>>>>, <<<<<<1>>>>, <<<<0>>>>>> >>,
     << <<<<<<1>>>>>>, <<<<<<1>>>>, <<<<0>>>>>> >>,
     << <<<<<<1>>>>, <<<<1>>, <<1>>>>>>, <<<<<<1>>>>, <<<<1>>>>>> >>}

NetBounded(net) ==
    /\ \A i \in 1..Len(net.layers) :
          Bounded(net.layers[i].weights) /\ Bounded(net.layers[i].biases)
    /\ Len(net.history) <= MaxHistory

NetworkInit ==
    /\ nodes = <<>>
    /\ outputNode = 0
    /\ executionOrder = <<>>
    /\ NoEngine
    /\ op = [name |-> "new NeuralNetwork", arg |-> 0]
    /\ rewound = FALSE
    /\ layer = NoLayer
    /\ matrix = NoMatrix
    /\ \E c \in NetworkConfigs, ws \in NetworkWeights :
          /\ Len(ws) = Len(c.layers)
          /\ network = NewNetwork(c, ws)
    /\ player = NoPlayer
    /\ test = NoTest

networkFrame == <<graphVars, layer, matrix, player, test>>

Train ==
    \E set \in TrainingSets, epochs \in 0..MaxEpochs :
        /\ NetBounded(train(Entered(network), set[1], set[2], epochs))
        /\ network' = train(Entered(network), set[1], set[2], epochs)
        /\ Did("network.train", <<Len(set[1]), Len(set[2]), epochs>>)
        /\ UNCHANGED networkFrame

TrainBatch ==
    \E input \in SampleInputs, target \in SampleTargets :
        /\ NetBounded(trainBatch(Entered(network), input, target))
        /\ network' = trainBatch(Entered(network), input, target)
        /\ Did("network.trainBatch", 0)
        /\ UNCHANGED networkFrame

NetForward ==
    \E input \in SampleInputs :
        /\ network' = netForward(Entered(network), input)
        /\ Did("network.forward", 0)
        /\ UNCHANGED networkFrame

NetBackward ==
    \E predicted \in SamplePredictions, target \in SampleTargets :
        /\ network' = netBackward(Entered(network), predicted, target)
        /\ Did("network.backward", 0)
        /\ UNCHANGED networkFrame

Predict ==
    \E input \in SampleInputs :
        /\ network' = predict(Entered(network), input)
        /\ Did("network.predict", 0)
        /\ UNCHANGED networkFrame

Evaluate ==
    \E set \in TrainingSets :
        /\ network' = evaluate(Entered(network), set[1], set[2])
        /\ Did("network.evaluate", 0)
        /\ UNCHANGED networkFrame

ResetHistory ==
    /\ network' = resetHistory(Entered(network))
    /\ Did("network.resetHistory", 0)
    /\ UNCHANGED networkFrame

NetworkNext ==
    \/ Train
    \/ TrainBatch
    \/ NetForward
    \/ NetBackward
    \/ Predict
    \/ Evaluate
    \/ ResetHistory

NetworkSpec == NetworkInit /\ [][NetworkNext]_vars

\* ------------------------------------------------------------------------
\* Claims about the network
\* ------------------------------------------------------------------------
\* C17: train(inputs, targets, epochs) with inputs.length # targets.length
\* raises before any training: no layer changes (weights, biases, caches,
\* gradients) and the history gets no entry.
C17_TrainLengthMismatch ==
    [][(op'.name = "network.train" /\ op'.arg[1] # op'.arg[2])
          => /\ network'.threw
             /\ network'.layers = network.layers
             /\ network'.history = network.history]_vars

C17_Witness ==
    /\ op.name = "network.train"
    /\ op.arg[1] # op.arg[2]
    /\ op.arg[3] > 0
    /\ network.threw
    /\ Len(network.history) > 0
    /\ network.layers[1].dWeights # Null
    /\ network.layers[1].weights # <<<<1>>>>

IsPrefix(s, t) == Len(s) <= Len(t) /\ SubSeq(t, 1, Len(s)) = s

HistoryReaders ==
    {"network.trainBatch", "network.forward", "network.backward",
     "network.predict", "network.evaluate"}

\* C18: train, trainBatch, forward, backward, predict and evaluate never
\* change or remove a history entry; a train(inputs, targets, epochs) that
\* returns appends exactly epochs entries with epoch fields 1..epochs in
\* order; trainBatch, forward, backward, predict and evaluate append nothing.
C18_HistoryAppendOnly ==
    [][/\ op'.name \in HistoryReaders => network'.history = network.history
       /\ op'.name = "network.train" =>
             /\ IsPrefix(network.history, network'.history)
             /\ ~network'.threw =>
                   /\ Len(network'.history) = Len(network.history) + op'.arg[3]
                   /\ \A k \in 1..op'.arg[3] :
                         network'.history[Len(network.history) + k].epoch = k]_vars

C18_Witness ==
    /\ op.name = "network.train"
    /\ ~network.threw
    /\ op.arg[3] = 1
    /\ Len(network.history) = 2
    /\ network.history[1].epoch = 1
    /\ network.history[2].epoch = 1
    /\ network.history[1].loss # network.history[2].loss

\* ------------------------------------------------------------------------
\* playAll: the auto-play loop of the engine
\* ------------------------------------------------------------------------
\* `player` follows one playAll call at a time:
\*   run      "idle" (not called yet), "delay" (suspended on the await of
\*            its setTimeout promise) or "done" (the promise is resolved)
\*   start    the cursor when playAll was called
\*   steps    the stepForward() calls this playAll has made
\*   stop     history: the caller has asked for the loop to stop
\*   stopAt   the cursor when it asked
\* onStep is left out: it is the caller's callback and is optional.
NewPlayer ==
    [built |-> TRUE, run |-> "idle", start |-> -1, steps |-> 0,
     stop |-> FALSE, stopAt |-> -1]

\* the end test one step early
isAtEndEarly(e) == e.currentStepIndex >= totalSteps(e) - 2

isAtEnd(e) == e.currentStepIndex >= totalSteps(e) - 1

\* The engine when playAll is called: an engine of the example library after
\* k stepForward() calls and then b stepBackward() calls.
RECURSIVE Rewind(_, _)
Rewind(e, b) == IF b = 0 THEN e ELSE Rewind(stepBackward(e), b - 1)

StepsBack == {0, 1}

PlayAllInit ==
    /\ \E g \in Examples :
         \E k \in 0..totalSteps(NewEngine(g)) :
           \E b \in StepsBack :
              LET e == Rewind(Replay(NewEngine(g), k), b)
              IN /\ nodes = e.nodes
                 /\ outputNode = e.outputNode
                 /\ executionOrder = e.executionOrder
                 /\ forwardSteps = e.forwardSteps
                 /\ backwardSteps = e.backwardSteps
                 /\ currentStepIndex = e.currentStepIndex
                 /\ mode = e.mode
                 /\ pendingGradients = e.pendingGradients
                 /\ ret = e.ret
                 /\ rewound = (b > 0)
    /\ op = [name |-> "new", arg |-> 0]
    /\ layer = NoLayer
    /\ matrix = NoMatrix
    /\ network = NoNetwork
    /\ player = NewPlayer
    /\ test = NoTest

\* engine.playAll(delayMs): the call runs up to the first await.  op.arg is
\* the number of stepForward() calls made (0 or 1).
PlayAll ==
    /\ player.run # "delay"
    /\ IF isAtEnd(Cur)
       THEN /\ Becomes(Cur)
            /\ Did("playAll", 0)
            /\ player' = [NewPlayer EXCEPT !.run = "done",
                                           !.start = currentStepIndex]
       ELSE /\ \E e \in {stepForward(Cur)} : Becomes(e)
            /\ Did("playAll", 1)
            /\ player' = [NewPlayer EXCEPT !.run = "delay",
                                           !.start = currentStepIndex,
                                           !.steps = 1]
    /\ UNCHANGED <<rewound, layer, matrix, network, test>>

\* the delay has elapsed: the loop tests isAtEnd() again
PlayAllResume ==
    /\ player.run = "delay"
    /\ IF isAtEnd(Cur)
       THEN /\ Becomes(Cur)
            /\ Did("playAll.resume", 0)
            /\ player' = [player EXCEPT !.run = "done"]
       ELSE /\ \E e \in {stepForward(Cur)} : Becomes(e)
            /\ Did("playAll.resume", 1)
            /\ player' = [player EXCEPT !.steps = @ + 1]
    /\ UNCHANGED <<rewound, layer, matrix, network, test>>

\* The caller of playAll, while the promise is pending, decides that the
\* loop should stop.  playAll takes a delay and a callback and the engine
\* has no field for such a request: nothing of the engine changes.
RequestStop ==
    /\ player.run = "delay"
    /\ ~player.stop
    /\ player' = [player EXCEPT !.stop = TRUE, !.stopAt = currentStepIndex]
    /\ Becomes(Cur)
    /\ Did("stop", 0)
    /\ UNCHANGED <<rewound, layer, matrix, network, test>>

\* playAll is the engine's only caller
PlayAllNext ==
    \/ PlayAll
    \/ PlayAllResume
    \/ RequestStop

\* a setTimeout promise is resolved in the end
PlayAllSpec == PlayAllInit /\ [][PlayAllNext]_vars /\ WF_vars(PlayAllResume)

\* ------------------------------------------------------------------------
\* Properties of playAll (PlayAllSpec)
\* ------------------------------------------------------------------------
\* C19: once the caller has asked a suspended playAll to stop, the loop
\* makes no further stepForward() call and the cursor stays where it was
\* when the caller asked.
C19_Cancellation ==
    /\ [][(player.stop /\ op'.name = "playAll.resume") => op'.arg = 0]_vars
    /\ [](player.stop => currentStepIndex = player.stopAt)

\* C20: a playAll called at cursor c on an engine of T steps makes one
\* stepForward() call in the call itself and one after each delay, T-1-c in
\* all, and then resolves with isAtEnd() true; called at the end it makes
\* none and resolves in the call.
C20_Termination ==
    /\ [](player.run = "done"
            => /\ isAtEnd(Cur)
               /\ player.steps = totalSteps(Cur) - 1 - player.start)
    /\ [](player.run = "delay"
            => /\ player.steps >= 1
               /\ currentStepIndex = player.start + player.steps
               /\ player.steps <= totalSteps(Cur) - 1 - player.start)
    /\ [][(op'.name = "playAll" /\ isAtEnd(Cur))
             => /\ player'.run = "done"
                /\ player'.steps = 0
                /\ CurNext = Cur]_vars
    /\ [][(op'.name \in {"playAll", "playAll.resume"} /\ ~isAtEnd(Cur))
             => /\ player'.run = "delay"
                /\ player'.steps = player.steps + 1
                /\ currentStepIndex' = currentStepIndex + 1]_vars
    /\ (player.run = "delay") ~> (player.run = "done")

C20_Witness ==
    /\ player.run = "done"
    /\ player.start = 1
    /\ player.steps = 4
    /\ totalSteps(Cur) = 6
    /\ rewound
    /\ op.name = "playAll.resume"

\* ------------------------------------------------------------------------
\* ActivationTests.checkGradient (Activation.ts)
\* ------------------------------------------------------------------------
\* The entries of the input are counted in epsilons: 1 is 1e-7 and
\* EpsilonInverse is 1.0.  relu and linear commute with this change of unit
\* (f(c * x) = c * f(x) for c > 0), and their derivatives read only the sign
\* of an entry.  A numerical derivative is the pair <<fPlus - fMinus, 2>>,
\* the quotient by 2 * epsilon, and an error the pair <<numerator, 2>>.
\* sigmoid, tanh and softmax are real-valued and are not part of the model.
EpsilonInverse == 10000000

ToleranceInverse == 100000

\* x.copy() with entry (i, j) moved by d epsilons
Perturbed(x, i, j, d) == [x EXCEPT ![i][j] = @ + d]

\* (f(x + epsilon) - f(x - epsilon)) / (2 * epsilon), entry by entry
numericalGradient(name, x) ==
    [i \in 1..Rows(x) |-> [j \in 1..Cols(x) |->
        <<activationForward(name, Perturbed(x, i, j, 1))[i][j]
            - activationForward(name, Perturbed(x, i, j, -1))[i][j], 2>>]]

\* Math.abs(analytical.get(i, j) - numerical.get(i, j))
gradientError(a, n) == <<Abs(a * n[2] - n[1]), n[2]>>

\* the largest error of the matrix; every denominator is 2
maxErrorOf(analytical, numerical) ==
    LET errors == {gradientError(analytical[i][j], numerical[i][j])[1] :
                      i \in 1..Rows(analytical), j \in 1..Cols(analytical)}
    IN <<CHOOSE m \in errors : \A k \in errors : k <= m, 2>>

\* maxError < 1e-5
withinTolerance(maxError) == maxError[1] * ToleranceInverse < maxError[2]

checked(name, x, analytical, numerical, maxError) ==
    [built |-> TRUE, activation |-> name, x |-> x,
     analytical |-> analytical, numerical |-> numerical,
     maxError |-> maxError, passed |-> withinTolerance(maxError)]

compared(name, x, analytical, numerical) ==
    checked(name, x, analytical, numerical, maxErrorOf(analytical, numerical))

checkGradient(name, x) ==
    compared(name, x, activationBackward(name, x), numericalGradient(name, x))

\* the entries of testActivationFunctions (0.5, -0.5 and 0.0), and one
\* epsilon on either side of 0
TestEntries == {-(EpsilonInverse \div 2), -1, 0, 1, EpsilonInverse \div 2}

\* column vectors as in testActivationFunctions, of up to MaxTestRows rows
TestInputs ==
    UNION {[1..r -> [1..1 -> TestEntries]] : r \in 1..MaxTestRows}

\* no check has been made
GradientCheckInit == GraphInit

CheckGradient ==
    /\ \E name \in ActivationTypes, x \in TestInputs :
          /\ test' = checkGradient(name, x)
          /\ Did("checkGradient", Rows(x))
    /\ UNCHANGED <<graphVars, layer, matrix, network, player>>

GradientCheckNext == CheckGradient

GradientCheckSpec == GradientCheckInit /\ [][GradientCheckNext]_vars

\* C21: every gradient check passes: for each activation and each input,
\* zero entries included, the derivative that backward returns is within
\* 1e-5 of the central difference.
C21_GradientCheck == test.built => test.passed

\* ------------------------------------------------------------------------
\* Properties of the engine (Spec), continued
\* ------------------------------------------------------------------------
\* the position of node v in the backward steps
BackwardIndexOf(v) == CHOOSE k \in 1..Len(backwardSteps) : backwardSteps[k].nodeId = v

\* a stepForward() call that executes the backward step of node v
BackwardStepOf(v) ==
    /\ op'.name = "stepForward"
    /\ ret'
    /\ currentStepIndex' >= Len(forwardSteps)
    /\ backwardSteps[currentStepIndex' - Len(forwardSteps) + 1].nodeId = v

\* C22: in a run from reset(), when the backward step of a node v executes
\* the backward step of every consumer of v has executed, and the pending
\* gradient of v is the sum of what they computed for it; the first backward
\* step is that of the output node and seeds its pending entry with 1.
C22_ReversedOrderSound ==
    [][\A v \in Range(executionOrder) :
          (~rewound /\ BackwardStepOf(v)) =>
             /\ \A c \in Consumers(Cur, v) :
                   /\ BackwardIndexOf(c) < BackwardIndexOf(v)
                   /\ Executed(backwardSteps[BackwardIndexOf(c)])
             /\ Consumers(Cur, v) # {} =>
                   Get(pendingGradients, v) =
                      SetSum(Consumers(Cur, v),
                             [c \in Consumers(Cur, v) |-> Contribution(Cur, c, v)])
             /\ currentStepIndex' = Len(forwardSteps) =>
                   /\ v = outputNode
                   /\ Get(pendingGradients', v) = 1]_vars

C22_Witness ==
    /\ ~rewound
    /\ op.name = "stepForward"
    /\ mode = "backward"
    /\ \E v \in Shared(Cur) :
          /\ backwardSteps[currentStepIndex - Len(forwardSteps) + 1].nodeId = v
          /\ Get(pendingGradients, v) # 0
          /\ \A c \in Consumers(Cur, v) : Contribution(Cur, c, v) # Get(pendingGradients, v)

\* ------------------------------------------------------------------------
\* trainBatch on networks of one, two and three layers
\* ------------------------------------------------------------------------
TrainBatchInit ==
    /\ nodes = <<>>
    /\ outputNode = 0
    /\ executionOrder = <<>>
    /\ NoEngine
    /\ op = [name |-> "new NeuralNetwork", arg |-> 0]
    /\ rewound = FALSE
    /\ layer = NoLayer
    /\ matrix = NoMatrix
    /\ \E c \in NetworkConfigs \cup DeepConfigs, ws \in NetworkWeights :
          /\ Len(ws) = Len(c.layers)
          /\ network = NewNetwork(c, ws)
    /\ player = NoPlayer
    /\ test = NoTest

TrainBatchNext ==
    \/ TrainBatch
    \/ NetForward
    \/ NetBackward

TrainBatchSpec == TrainBatchInit /\ [][TrainBatchNext]_vars

\* the calls of one trainBatch on a network of L layers, in the order the
\* claim gives
LayerCalls(name, L) == [k \in 1..L |-> <<name, k - 1>>]

OrderedCalls(L) ==
    LayerCalls("forward", L)
       \o <<<<"lossFunction.forward", -1>>, <<"lossFunction.backward", -1>>>>
       \o Reverse(LayerCalls("backward", L))
       \o LayerCalls("updateWeights", L)

\* C23: one trainBatch calls forward on the layers in order 0..L-1, then
\* computes the loss, then calls backward on the layers in order L-1..0
\* starting from lossFunction.backward, and only then updateWeights, once on
\* every layer; a trainBatch that raises has made a prefix of these calls.
C23_TrainBatchOrder ==
    [][op'.name = "network.trainBatch" =>
          /\ IsPrefix(network'.calls, OrderedCalls(Len(network.layers)))
          /\ ~network'.threw =>
                network'.calls = OrderedCalls(Len(network.layers))]_vars

C23_Witness ==
    /\ op.name = "network.trainBatch"
    /\ ~network.threw
    /\ Len(network.layers) = 3
    /\ Len(network.calls) = 11
    /\ \A i \in 1..3 : network.layers[i].weights # <<<<1>>>>

\* C24: reset() leaves the cursor at -1, the mode idle, the pending-gradient
\* map empty, every node of the graph with gradient 0 and not active, and a
\* step list made anew, each step with an empty equation and no values; the
\* value of every node is what it was.
C24_Reset ==
    [][op'.name = "reset" =>
          /\ currentStepIndex' = -1
          /\ mode' = "idle"
          /\ pendingGradients' = EmptyMap
          /\ DOMAIN nodes' = DOMAIN nodes
          /\ \A id \in DOMAIN nodes :
                /\ nodes'[id].gradient = 0
                /\ ~nodes'[id].isActive
                /\ nodes'[id].value = nodes[id].value
          /\ forwardSteps' = generateForwardSteps(nodes', executionOrder')
          /\ backwardSteps' = generateBackwardSteps(nodes', executionOrder')
          /\ Len(forwardSteps') = Len(executionOrder)
          /\ Len(backwardSteps') = Len(executionOrder)
          /\ \A k \in 1..totalSteps(CurNext) :
                /\ allSteps(CurNext)[k].equation = NoEquation
                /\ allSteps(CurNext)[k].values = NoValues]_vars

\* a reset() after the forward step of the output node was executed: the
\* value it computed is kept
C24_Witness ==
    /\ op.name = "reset"
    /\ currentStepIndex = -1
    /\ outputNode # 0
    /\ nodes[outputNode].type \notin LeafTypes
    /\ nodes[outputNode].value # 0
    /\ Len(executionOrder) >= 4

\* ------------------------------------------------------------------------
\* The engine with executeForward and executeBackward among its calls
\* ------------------------------------------------------------------------
CursorExamples ==
    {NoOutputExample, UnusedNodeExample, SquareByMultiplyExample, MaxTieExample}

CursorInit ==
    /\ \E g \in CursorExamples :
          LET e == NewEngine(g)
          IN /\ nodes = e.nodes
             /\ outputNode = e.outputNode
             /\ executionOrder = e.executionOrder
             /\ forwardSteps = e.forwardSteps
             /\ backwardSteps = e.backwardSteps
             /\ currentStepIndex = e.currentStepIndex
             /\ mode = e.mode
             /\ pendingGradients = e.pendingGradients
             /\ ret = e.ret
    /\ op = [name |-> "new", arg |-> 0]
    /\ rewound = FALSE
    /\ layer = NoLayer
    /\ matrix = NoMatrix
    /\ network = NoNetwork
    /\ player = NoPlayer
    /\ test = NoTest

ExecuteForward ==
    /\ Becomes(executeForward(Cur))
    /\ Did("executeForward", 0)
    /\ UNCHANGED <<rewound, objects>>

ExecuteBackward ==
    /\ Becomes(executeBackward(Cur))
    /\ Did("executeBackward", 0)
    /\ UNCHANGED <<rewound, objects>>

CursorNext ==
    \/ Reset
    \/ StepForward
    \/ StepBackward
    \/ JumpToStep
    \/ ExecuteForward
    \/ ExecuteBackward

CursorSpec == CursorInit /\ [][CursorNext]_vars

\* C25: with N nodes in the execution order the cursor is within -1..2N-1;
\* the mode is idle exactly at -1, forward exactly within 0..N-1 and backward
\* exactly from N on; isComplete holds exactly at the last step; and the
\* active nodes of getState() are none at -1 and otherwise the node of the
\* current step and its inputs.
C25_CursorMode ==
    LET N == Len(executionOrder)
        state == getState(Cur)
        c == state.currentStep
    IN /\ -1 <= c /\ c <= 2 * N - 1
       /\ state.totalSteps = 2 * N
       /\ (state.mode = "idle") <=> (c = -1)
       /\ (state.mode = "forward") <=> (0 <= c /\ c < N)
       /\ (state.mode = "backward") <=> (N <= c)
       /\ state.isComplete <=> (c = state.totalSteps - 1)
       /\ (state.activeNodes = {}) <=> (c = -1)
       /\ c >= 0 =>
             state.activeNodes =
                {state.steps[c + 1].nodeId}
                   \cup Range(nodes[state.steps[c + 1].nodeId].inputs)

C25_Witness ==
    /\ op.name = "executeBackward"
    /\ mode = "backward"
    /\ rewound
    /\ currentStepIndex = Len(executionOrder)
    /\ Len(executionOrder) = 3

\* ------------------------------------------------------------------------
\* Stepping forward and back only
\* ------------------------------------------------------------------------
StepNext ==
    \/ Reset
    \/ StepForward
    \/ StepBackward

StepSpec == Init /\ [][StepNext]_vars

\* C26: wherever stepForward and stepBackward calls leave the cursor, the
\* pending gradient of every node is the one that reset() followed by
\* cursor + 1 stepForward() calls gives it.
C26_RewindConsistency ==
    \A v \in DOMAIN nodes :
        Get(pendingGradients, v) =
            Get(FromReset(Cur, currentStepIndex + 1).pendingGradients, v)

\* C27: after stepping from reset() to the last step, the pending gradient
\* the engine holds for each node is the gradient the node holds after
\* ComputationGraph.forward() and backward() on the same graph and inputs.
C27_IterativeAgreesWithRecursive ==
    (AtEnd /\ ~rewound) =>
        \A v \in DOMAIN nodes :
            Get(pendingGradients, v) =
                graphBackward(FirstPass, outputNode)[v].gradient

\* ------------------------------------------------------------------------
\* Graphs whose input references are reassigned before setOutput
\* ------------------------------------------------------------------------
\* no node the output reaches is among its own inputs' inputs
Acyclic(ns, out) ==
    \A v \in Reachable(ns, out) : v \notin InputClosure(ns, Range(ns[v].inputs))

OrderInit ==
    /\ \E g \in Examples : nodes = g.nodes
    /\ outputNode = 0
    /\ executionOrder = <<>>
    /\ NoEngine
    /\ op = [name |-> "new", arg |-> 0]
    /\ rewound = FALSE
    /\ layer = NoLayer
    /\ matrix = NoMatrix
    /\ network = NoNetwork
    /\ player = NoPlayer
    /\ test = NoTest

\* node.inputs[i] = other: inputs is a public array of node references
Rewire ==
    /\ outputNode = 0
    /\ \E id \in NodeIds, other \in NodeIds :
          \E i \in 1..Len(nodes[id].inputs) :
              /\ nodes' = [nodes EXCEPT ![id].inputs[i] = other]
              /\ Did("rewire", id)
    /\ UNCHANGED <<outputNode, executionOrder, engineVars, objects>>

\* forward() and backward() are called on graphs without a cycle: on a cycle
\* forward() feeds a node its own last value and backward() never returns
OrderNext ==
    \/ Rewire
    \/ SetOutput
    \/ (Acyclic(nodes, outputNode) /\ Forward)
    \/ (Acyclic(nodes, outputNode) /\ Backward)

OrderSpec == OrderInit /\ [][OrderNext]_vars

\* C28: setOutput yields an order in which every node the output reaches
\* appears exactly once, also when input references form a cycle; without an
\* output node the order is empty, forward() returns 0, an engine on the
\* graph has no steps, and backward() changes nothing.
C28_MalformedGraphs ==
    /\ [][op'.name = "setOutput" =>
            \A v \in Reachable(nodes', outputNode') :
                Cardinality({i \in 1..Len(executionOrder') :
                                executionOrder'[i] = v}) = 1]_vars
    /\ [](outputNode = 0 =>
            /\ executionOrder = <<>>
            /\ op.name = "graph.forward" => op.arg = 0
            /\ totalSteps(NewEngine([nodes |-> nodes, out |-> outputNode])) = 0)
    /\ [][(op'.name = "graph.backward" /\ outputNode = 0) =>
            UNCHANGED <<nodes, outputNode, executionOrder>>]_vars

\* setOutput on a graph in which two nodes are each other's inputs
C28_Witness ==
    /\ op.name = "setOutput"
    /\ ~Acyclic(nodes, outputNode)
    /\ \E a, b \in Range(executionOrder) :
          /\ a # b
          /\ a \in Range(nodes[b].inputs)
          /\ b \in Range(nodes[a].inputs)
    /\ Len(executionOrder) >= 3

\* C29: jumpToStep(n) with n outside 0..totalSteps-1, -1 included, changes
\* nothing: cursor, mode, pending gradients, the nodes' values, gradients
\* and active flags, and every StepInfo stay as they were.
C29_JumpOutOfRange ==
    [][(op'.name = "jumpToStep"
          /\ (op'.arg < 0 \/ op'.arg > totalSteps(Cur) - 1))
         => UNCHANGED <<nodes, outputNode, executionOrder, forwardSteps,
                        backwardSteps, currentStepIndex, mode,
                        pendingGradients>>]_vars

\* the scrubber's Start position sent in the middle of the backward phase
C29_Witness ==
    /\ op.name = "jumpToStep"
    /\ op.arg = -1
    /\ mode = "backward"
    /\ currentStepIndex > Len(executionOrder)
    /\ \E id \in DOMAIN nodes : nodes[id].isActive
    /\ \E v \in DOMAIN pendingGradients : pendingGradients[v] # 0

\* ------------------------------------------------------------------------
\* The layer's accessors.  A Matrix object in a caller's hands is the pair
\* of its entries and of the storage they live in: "own" for row arrays
\* that no layer field refers to, or the name of the layer field whose row
\* arrays they are.
\* ------------------------------------------------------------------------
NoMatrixObject == [storage |-> "null", data |-> Null]

\* Matrix.copy(): new row arrays holding the same numbers
copy(m) ==
    [storage |-> "own",
     data |-> [i \in 1..Rows(m) |-> [j \in 1..Cols(m) |-> m[i][j]]]]

\* Matrix.set(row, col, value), indices from 0
set(m, row, col, value) == [m EXCEPT ![row + 1][col + 1] = value]

\* accessors that hand out the layer's own matrices
getParametersShared(l) ==
    [weights |-> [storage |-> "weights", data |-> l.weights],
     biases |-> [storage |-> "biases", data |-> l.biases],
     weightGradients |-> IF l.dWeights # Null
                         THEN [storage |-> "dWeights", data |-> l.dWeights]
                         ELSE NoMatrixObject,
     biasGradients |-> IF l.dBiases # Null
                       THEN [storage |-> "dBiases", data |-> l.dBiases]
                       ELSE NoMatrixObject]

getParameters(l) ==
    [weights |-> copy(l.weights),
     biases |-> copy(l.biases),
     weightGradients |-> IF l.dWeights # Null THEN copy(l.dWeights)
                         ELSE NoMatrixObject,
     biasGradients |-> IF l.dBiases # Null THEN copy(l.dBiases)
                       ELSE NoMatrixObject]

getCachedValues(l) ==
    [input |-> IF l.lastInput # Null THEN copy(l.lastInput) ELSE NoMatrixObject,
     preActivation |-> IF l.lastZ # Null THEN copy(l.lastZ) ELSE NoMatrixObject,
     activation |-> IF l.lastA # Null THEN copy(l.lastA) ELSE NoMatrixObject]

\* const got = layer.getParameters()
GetParameters ==
    /\ test' = [built |-> TRUE, got |-> getParameters(layer), sets |-> 0]
    /\ Did("layer.getParameters", 0)
    /\ UNCHANGED <<graphVars, layer, matrix, network, player>>

\* const got = layer.getCachedValues()
GetCachedValues ==
    /\ test' = [built |-> TRUE, got |-> getCachedValues(layer), sets |-> 0]
    /\ Did("layer.getCachedValues", 0)
    /\ UNCHANGED <<graphVars, layer, matrix, network, player>>

\* got.<name>.set(row, col, got.<name>.get(row, col) + d): the entry is
\* written into the storage of the matrix object, whosever it is
SetReturned ==
    /\ test.built
    /\ test.sets < MaxSets
    /\ \E name \in DOMAIN test.got :
          LET held == test.got[name]
          IN /\ held.data # Null
             /\ \E row \in 0..(Rows(held.data) - 1),
                   col \in 0..(Cols(held.data) - 1), d \in {-1, 1} :
                   LET written == set(held.data, row, col,
                                      held.data[row + 1][col + 1] + d)
                   IN /\ test' = [test EXCEPT !.got[name].data = written,
                                              !.sets = @ + 1]
                      /\ layer' = IF held.storage = "own" THEN layer
                                  ELSE [layer EXCEPT ![held.storage] = written]
    /\ Did("returned.set", 0)
    /\ UNCHANGED <<graphVars, matrix, network, player>>

\* a layer as constructed, after a forward call, and after a forward and a
\* backward call
AfterForward(l, input) ==
    LET r == layerForward(l, input)
    IN [r EXCEPT !.inCycle = IF r.threw THEN @ ELSE TRUE]

AfterBackward(l, dLoss) ==
    LET r == layerBackward(l, dLoss)
    IN [r EXCEPT !.inCycle = IF r.threw THEN @ ELSE FALSE,
                 !.graded = IF r.threw THEN @ ELSE TRUE]

AccessorInit ==
    /\ nodes = <<>>
    /\ outputNode = 0
    /\ executionOrder = <<>>
    /\ NoEngine
    /\ rewound = FALSE
    /\ \E c \in LayerConfigs, w \in InitialWeights, input \in LayerInputs,
          dLoss \in LossGradients, calls \in 0..2 :
          /\ layer = IF calls = 0 THEN NewLayer(c, w)
                     ELSE IF calls = 1 THEN AfterForward(NewLayer(c, w), input)
                     ELSE AfterBackward(AfterForward(NewLayer(c, w), input), dLoss)
          /\ op = [name |-> "layer", arg |-> calls]
    /\ matrix = NoMatrix
    /\ network = NoNetwork
    /\ player = NoPlayer
    /\ test = NoTest

AccessorNext ==
    \/ GetParameters
    \/ GetCachedValues
    \/ SetReturned

AccessorSpec == AccessorInit /\ [][AccessorNext]_vars

====
